---------------------------- MODULE Spec2Model ----------------------------
(***************************************************************************)
(* A model of the Generic Implicit Certificate prototype (gic-prototype):  *)
(* the protocol engine of src/src/gic/core.py run against the four         *)
(* parameter bundles the repository wires into it: the toy integer group   *)
(* of tests/test_skeleton.py, the GQ bundle over Z_N^*, the Schnorr bundle *)
(* over a short-Weierstrass curve and the BLS bundle over a j = 0 curve.   *)
(*                                                                         *)
(* Byte strings are sequences of byte values 0..255.  Group elements of    *)
(* the toy and GQ bundles are integers; curve points are records           *)
(* [inf, x, y].  An optional value is a sequence: <<>> is Python's None    *)
(* and <<v>> is the value v.  A call that can raise returns <<"ok", v>>    *)
(* or the one-element sequence <<"ValueError">>.                           *)
(*                                                                         *)
(* SHA-256 is not computed: the hash is an unknown function, sampled       *)
(* lazily into the table `oracle` (one digest per distinct input, the same *)
(* digest on every later query), so that every property checked holds for  *)
(* every hash function.  The digest is DigestLen bytes wide.               *)
(***************************************************************************)
EXTENDS Integers, Sequences, FiniteSets, TLC

VARIABLES
    params,     \* the Params bundle of the run: [scheme, N, lam]
    done,       \* the operations that have returned (or raised) in this run
    sk_C,       \* <<>> or <<the CA's secret key>>
    pk_C,       \* <<>> or <<the CA's public key>>
    identity,   \* the identity bytes passed to iCertGen
    iCer,       \* <<>> or <<the certificate bytes returned by iCertGen>>
    view_CA,    \* <<>> or <<[k_C, r]>>
    view_U,     \* <<>> or <<[k_U, r]>>
    sk_U,       \* <<>> or <<the value returned by SKGen>>
    pk_U,       \* the value returned by PKRecon: <<>> (None) or <<pk>>
    rcv,        \* the bytes the verifier passed to PKRecon
    err,        \* "none", or the exception an operation of the run raised
    oracle,     \* the hash table sampled so far: bytes -> digest
    calls,      \* what the last operation invoked: [op, ro, grp]
    arg,        \* the function applied on its own, with its arguments
    ret         \* and what it returned

vars == <<params, done, sk_C, pk_C, identity, iCer, view_CA, view_U,
          sk_U, pk_U, rcv, err, oracle, calls, arg, ret>>

-----------------------------------------------------------------------------
(* Bounds of the model.                                                    *)

\* The samplers return the MaxSample+1 smallest and the MaxSample+1 largest
\* elements of their range.
MaxSample == 1

\* The identities of the runs: every byte string over IdBytes of length at
\* most MaxIdLen, and the fixed identities of the tests and the spec.
MaxIdLen == 1

\* Random-oracle output lengths 0..MaxLam are checked.
MaxLam == 17

\* The scalars 1..MaxScalar are given to the scalar action, and the codecs
\* are given the integers within MaxScalar of 0 and of the modulus.
MaxScalar == 10

\* The number of runs interleaved over one Params value.
MaxRuns == 2

\* The sampler of Z_N^* is run for every modulus N in 2..MaxModulus and for
\* the smaller modulus of the GQ bundles.
MaxModulus == 12

\* gen_rsa_modulus(bits) is run for every even bits with
\* 2 <= bits // 2 <= MaxHalfBits.
MaxHalfBits == 4

-----------------------------------------------------------------------------
(* Optional values and results of calls that can raise.                    *)

None == <<>>
Some(v) == <<v>>
Ok(v) == <<"ok", v>>
ValueError == <<"ValueError">>
IsOk(r) == Len(r) = 2
Val(r) == r[2]

Min(a, b) == IF a < b THEN a ELSE b

RECURSIVE Pow2(_)
Pow2(n) == IF n = 0 THEN 1 ELSE 2 * Pow2(n - 1)

RECURSIVE GCD(_, _)
GCD(a, b) == IF b = 0 THEN a ELSE GCD(b, a % b)

\* pow(a, -1, m): the inverse of a modulo m (a is a unit where it is called).
ModInv(a, m) == CHOOSE x \in 0..(m - 1) : (a * x) % m = 1 % m

\* pow(b, e, m) for e >= 0.
RECURSIVE ModExp(_, _, _)
ModExp(b, e, m) ==
    IF e = 0 THEN 1 % m
    ELSE LET h == ModExp(b, e \div 2, m)
             s == (h * h) % m
         IN  IF e % 2 = 1 THEN (s * (b % m)) % m ELSE s

-----------------------------------------------------------------------------
(* Bytes.                                                                  *)

Byte == 0..255

\* b"R=" and b"|id="
PrefixR == <<82, 61>>
DelimId == <<124, 105, 100, 61>>

\* b"alice", b"not-an-icert", b"garbage"
Alice == <<97, 108, 105, 99, 101>>
NotAnICert == <<110, 111, 116, 45, 97, 110, 45, 105, 99, 101, 114, 116>>
Garbage == <<103, 97, 114, 98, 97, 103, 101>>

StartsWith(b, p) == Len(b) >= Len(p) /\ SubSeq(b, 1, Len(p)) = p

\* b[n:] of Python, n >= 0
From(b, n) == SubSeq(b, n + 1, Len(b))

\* b[:n] of Python, n >= 0
Upto(b, n) == SubSeq(b, 1, Min(n, Len(b)))

\* 256^n for the n whose power is a TLC integer
Pow256(n) == CASE n = 0 -> 1 [] n = 1 -> 256 [] n = 2 -> 65536 [] n = 3 -> 16777216

\* x.to_bytes(length, "big") for 0 <= x < 2^31: the byte at 256^j is 0 for
\* j >= 4.  (Written without recursion: TLC's stack is short, and the fields
\* are 32 and 47 bytes long.)
int_to_fixed_bytes(x, length) ==
    [i \in 1..length |->
        IF length - i >= 4 THEN 0 ELSE (x \div Pow256(length - i)) % 256]

\* int.from_bytes(b, "big")
RECURSIVE int_from_fixed_bytes(_)
int_from_fixed_bytes(b) ==
    IF Len(b) = 0 THEN 0
    ELSE 256 * int_from_fixed_bytes(SubSeq(b, 1, Len(b) - 1)) + b[Len(b)]

\* n.bit_length() for n >= 0
RECURSIVE bit_length(_)
bit_length(n) == IF n = 0 THEN 0 ELSE 1 + bit_length(n \div 2)


-----------------------------------------------------------------------------
(* The toy group of tests/test_skeleton.py: H and E are addition mod Q.    *)

Q == 65537

HOps_zero == 0
HOps_add(left, right) == (left + right) % Q
HOps_neg(value) == (-value) % Q

EOps_one == 0
EOps_mul(left, right) == (left + right) % Q
EOps_inv(value) == (-value) % Q

toy_keygen(sk) == Ok(sk % Q)

-----------------------------------------------------------------------------
(* ZStarOps of the GQ bundle: H and E are Z_N^* under multiplication.      *)

ZStarOps_one == 1
ZStarOps_zero == 1
ZStarOps_mul(N, a, b) == (a * b) % N
ZStarOps_inv(N, a) == ModInv(a, N)
ZStarOps_add(N, a, b) == ZStarOps_mul(N, a, b)
ZStarOps_neg(N, a) == ZStarOps_inv(N, a)

\* The RSA public exponent make_gq_params defaults to (and the tests pass).
E_RSA == 65537

\* make_keygen_gq: s -> s^(-e_rsa) mod N, raising outside Z_N^*.
gq_keygen(N, e_rsa, s0) ==
    LET s == s0 % N
    IN  IF GCD(s, N) # 1 THEN ValueError
        ELSE Ok(ModExp(ModInv(s, N), e_rsa, N))

-----------------------------------------------------------------------------
(* ZqOps of the Schnorr and BLS bundles: H is Z_q under addition.          *)

ZqOps_zero == 0
ZqOps_add(q, a, b) == (a + b) % q
ZqOps_neg(q, a) == (-a) % q

-----------------------------------------------------------------------------
(* Short-Weierstrass curves y^2 = x^3 + a x + b over F_p.  The curves of   *)
(* the model have the shape of the curves of the code and a size TLC can   *)
(* enumerate: P256 stands for NIST P-256 (a = -3, p = 3 mod 4, prime group *)
(* order q, cofactor 1) and BLS for BLS12-381 G1 (a = 0, b = 4,            *)
(* p = 3 mod 4, odd cofactor 3, subgroup G1 of prime order q).  The point  *)
(* arithmetic is that of the libraries (ecdsa, py_ecc), with every         *)
(* representation of a point (affine, Jacobian) taken to its affine form.  *)

P256 == [p |-> 11, a |-> 8, b |-> 10, q |-> 7, Gx |-> 2, Gy |-> 1]
BLS == [p |-> 19, a |-> 0, b |-> 4, q |-> 7, Gx |-> 1, Gy |-> 9]

INFINITY == [inf |-> TRUE, x |-> 0, y |-> 0]
Pt(x, y) == [inf |-> FALSE, x |-> x, y |-> y]
Gen(C) == Pt(C.Gx, C.Gy)

OnCurve(C, x, y) == (y * y) % C.p = (x * x * x + C.a * x + C.b) % C.p

\* Every point of the curve, the point at infinity included.
CurvePoints(C) ==
    {INFINITY} \cup
    {Pt(x, y) : <<x, y>> \in {xy \in (0..(C.p - 1)) \X (0..(C.p - 1)) :
                                  OnCurve(C, xy[1], xy[2])}}

\* Point.double of ecdsa
ec_double(C, A) ==
    IF A.inf THEN INFINITY
    ELSE IF (2 * A.y) % C.p = 0 THEN INFINITY
    ELSE LET l == ((3 * A.x * A.x + C.a) * ModInv((2 * A.y) % C.p, C.p)) % C.p
             x3 == (l * l - 2 * A.x) % C.p
             y3 == (l * (A.x - x3) - A.y) % C.p
         IN  Pt(x3, y3)

\* Point.__add__ of ecdsa (and add of py_ecc, on affine forms)
ec_add(C, A, B) ==
    IF B.inf THEN A
    ELSE IF A.inf THEN B
    ELSE IF A.x = B.x
         THEN IF (A.y + B.y) % C.p = 0 THEN INFINITY ELSE ec_double(C, A)
    ELSE LET l == ((B.y - A.y) * ModInv((B.x - A.x) % C.p, C.p)) % C.p
             x3 == (l * l - A.x - B.x) % C.p
             y3 == (l * (A.x - x3) - A.y) % C.p
         IN  Pt(x3, y3)

ec_neg(C, A) == IF A.inf THEN INFINITY ELSE Pt(A.x, (-A.y) % C.p)

\* k * A of the libraries, k >= 0 (s * G in keygen, multiply(G1, s))
RECURSIVE ec_scalar(_, _, _)
ec_scalar(C, k, A) ==
    IF k = 0 THEN INFINITY
    ELSE LET h == ec_scalar(C, k \div 2, A)
             d == ec_add(C, h, h)
         IN  IF k % 2 = 1 THEN ec_add(C, d, A) ELSE d

\* P256Ops
P256Ops_one == INFINITY
P256Ops_add(A, B) == ec_add(P256, A, B)
P256Ops_neg(A) == IF A = INFINITY THEN INFINITY ELSE Pt(A.x, (-A.y) % P256.p)
P256Ops_mul(A, B) == P256Ops_add(A, B)
P256Ops_inv(A) == P256Ops_neg(A)

\* make_keygen_p256: s -> s * G, raising when s = 0 mod q.
p256_keygen(s0) ==
    LET s == s0 % P256.q
    IN  IF s = 0 THEN ValueError ELSE Ok(ec_scalar(P256, s, Gen(P256)))

\* is_inf of py_ecc reads the last coordinate: z of a Jacobian point and y
\* of an affine pair (the canonical form of this bundle).
bls_is_inf(A) == A.inf \/ A.y = 0
to_jacobian(A) == IF bls_is_inf(A) THEN INFINITY ELSE A
canon_g1(A) == IF bls_is_inf(A) THEN INFINITY ELSE A

\* G1Ops
G1Ops_one == INFINITY
G1Ops_mul(A, B) == canon_g1(ec_add(BLS, to_jacobian(A), to_jacobian(B)))
G1Ops_inv(A) == canon_g1(ec_neg(BLS, to_jacobian(A)))

\* make_keygen_bls_g1: s -> s * G1, raising when s = 0 mod q.
bls_keygen(s0) ==
    LET s == s0 % BLS.q
    IN  IF s = 0 THEN ValueError ELSE Ok(canon_g1(ec_scalar(BLS, s, Gen(BLS))))

-----------------------------------------------------------------------------
(* The Params bundle: P.scheme selects the collaborators, as the fields of *)
(* core.Params do.                                                         *)

H_zero(P) ==
    CASE P.scheme = "toy" -> HOps_zero
      [] P.scheme = "gq" -> ZStarOps_zero
      [] OTHER -> ZqOps_zero

H_add(P, a, b) ==
    CASE P.scheme = "toy" -> HOps_add(a, b)
      [] P.scheme = "gq" -> ZStarOps_add(P.N, a, b)
      [] P.scheme = "schnorr" -> ZqOps_add(P256.q, a, b)
      [] OTHER -> ZqOps_add(BLS.q, a, b)

H_neg(P, a) ==
    CASE P.scheme = "toy" -> HOps_neg(a)
      [] P.scheme = "gq" -> ZStarOps_neg(P.N, a)
      [] P.scheme = "schnorr" -> ZqOps_neg(P256.q, a)
      [] OTHER -> ZqOps_neg(BLS.q, a)

E_one(P) ==
    CASE P.scheme = "toy" -> EOps_one
      [] P.scheme = "gq" -> ZStarOps_one
      [] P.scheme = "schnorr" -> P256Ops_one
      [] OTHER -> G1Ops_one

E_mul(P, a, b) ==
    CASE P.scheme = "toy" -> EOps_mul(a, b)
      [] P.scheme = "gq" -> ZStarOps_mul(P.N, a, b)
      [] P.scheme = "schnorr" -> P256Ops_mul(a, b)
      [] OTHER -> G1Ops_mul(a, b)

E_inv(P, a) ==
    CASE P.scheme = "toy" -> EOps_inv(a)
      [] P.scheme = "gq" -> ZStarOps_inv(P.N, a)
      [] P.scheme = "schnorr" -> P256Ops_inv(a)
      [] OTHER -> G1Ops_inv(a)

keygen(P, sk) ==
    CASE P.scheme = "toy" -> toy_keygen(sk)
      [] P.scheme = "gq" -> gq_keygen(P.N, E_RSA, sk)
      [] P.scheme = "schnorr" -> p256_keygen(sk)
      [] OTHER -> bls_keygen(sk)

-----------------------------------------------------------------------------
(* The scalar action of core.py: double-and-add, square-and-multiply.      *)

\* The loop with the doubling done before the addition.
RECURSIVE z_loop_H_doublesFirst(_, _, _, _)
z_loop_H_doublesFirst(P, res, base, n) ==
    IF n > 0
    THEN z_loop_H_doublesFirst(
             P, IF n % 2 = 1 THEN H_add(P, res, H_add(P, base, base)) ELSE res,
             H_add(P, base, base), n \div 2)
    ELSE res

\* The while loop of z_action_H, from the state (res, base, n).
RECURSIVE z_loop_H(_, _, _, _)
z_loop_H(P, res, base, n) ==
    IF n > 0
    THEN z_loop_H(P, IF n % 2 = 1 THEN H_add(P, res, base) ELSE res,
                  H_add(P, base, base), n \div 2)
    ELSE res

\* z_action_H that forgets to negate h for a < 0.
RECURSIVE z_action_H_ignoresSign(_, _, _)
z_action_H_ignoresSign(P, a, h) ==
    IF a = 0 THEN H_zero(P)
    ELSE IF a < 0 THEN z_action_H_ignoresSign(P, -a, h)
    ELSE z_loop_H(P, H_zero(P), h, a)

RECURSIVE z_action_H(_, _, _)
z_action_H(P, a, h) ==
    IF a = 0 THEN H_zero(P)
    ELSE IF a < 0 THEN z_action_H(P, -a, H_neg(P, h))
    ELSE z_loop_H(P, H_zero(P), h, a)

\* The loop with the squaring done before the multiplication.
RECURSIVE z_loop_E_squareFirst(_, _, _, _)
z_loop_E_squareFirst(P, res, base, n) ==
    IF n > 0
    THEN z_loop_E_squareFirst(
             P, IF n % 2 = 1 THEN E_mul(P, res, E_mul(P, base, base)) ELSE res,
             E_mul(P, base, base), n \div 2)
    ELSE res

\* The while loop of z_action_E, from the state (res, base, n).
RECURSIVE z_loop_E(_, _, _, _)
z_loop_E(P, res, base, n) ==
    IF n > 0
    THEN z_loop_E(P, IF n % 2 = 1 THEN E_mul(P, res, base) ELSE res,
                  E_mul(P, base, base), n \div 2)
    ELSE res

\* z_action_E that forgets to invert X for a < 0.
RECURSIVE z_action_E_ignoresSign(_, _, _)
z_action_E_ignoresSign(P, a, X) ==
    IF a = 0 THEN E_one(P)
    ELSE IF a < 0 THEN z_action_E_ignoresSign(P, -a, X)
    ELSE z_loop_E(P, E_one(P), X, a)

RECURSIVE z_action_E(_, _, _)
z_action_E(P, a, X) ==
    IF a = 0 THEN E_one(P)
    ELSE IF a < 0 THEN z_action_E(P, -a, E_inv(P, X))
    ELSE z_loop_E(P, E_one(P), X, a)

\* The method names a scalar action calls on its ops object: z_action_H
\* calls zero, add and neg, z_action_E calls one, mul and inv.
ops_names(grp) ==
    IF grp = "H" THEN [unit |-> "zero", combine |-> "add", invert |-> "neg"]
    ELSE [unit |-> "one", combine |-> "mul", invert |-> "inv"]

\* A loop that runs once for each of 8 bit positions, whatever n is.
z_loop_calls_fixedWidth(grp, n) ==
    LET RECURSIVE go(_, _)
        go(m, k) ==
            IF k > 0
            THEN (IF m % 2 = 1
                  THEN << <<ops_names(grp).combine, "res", "base">> >>
                  ELSE <<>>)
                 \o << <<ops_names(grp).combine, "base", "base">> >>
                 \o go(m \div 2, k - 1)
            ELSE <<>>
    IN  go(n, 8)

\* The calls the while loop makes on ops from n on, in order: in each
\* iteration add(res, base) if the low bit of n is set, then add(base, base).
RECURSIVE z_loop_calls(_, _)
z_loop_calls(grp, n) ==
    IF n > 0
    THEN (IF n % 2 = 1
          THEN << <<ops_names(grp).combine, "res", "base">> >>
          ELSE <<>>)
         \o << <<ops_names(grp).combine, "base", "base">> >>
         \o z_loop_calls(grp, n \div 2)
    ELSE <<>>

\* What one call of the scalar action with a does, in order: the call itself
\* (<<"call", a>>), then the calls it makes on ops and the calls of its
\* recursive call.
RECURSIVE z_action_calls(_, _)
z_action_calls(grp, a) ==
    << <<"call", a>> >> \o
    (IF a = 0 THEN << <<ops_names(grp).unit>> >>
     ELSE IF a < 0
          THEN << <<ops_names(grp).invert, "h">> >> \o z_action_calls(grp, -a)
          ELSE << <<ops_names(grp).unit>> >> \o z_loop_calls(grp, a))

\* The value the scalar action returns when the calls of t are made on the
\* ops object of P, from the argument h.
z_action_replay(P, grp, t, h) ==
    LET unit == IF grp = "H" THEN H_zero(P) ELSE E_one(P)
        combine(u, v) == IF grp = "H" THEN H_add(P, u, v) ELSE E_mul(P, u, v)
        invert(u) == IF grp = "H" THEN H_neg(P, u) ELSE E_inv(P, u)
        RECURSIVE run(_, _)
        run(i, s) ==
            IF i > Len(t) THEN s.res
            ELSE LET c == t[i]
                 IN  run(i + 1,
                       CASE c[1] = "call" -> s
                         [] c[1] = ops_names(grp).invert ->
                              [s EXCEPT !.h = invert(s.h)]
                         [] c[1] = ops_names(grp).unit ->
                              [s EXCEPT !.res = unit, !.base = s.h]
                         [] c[2] = "res" ->
                              [s EXCEPT !.res = combine(s.res, s.base)]
                         [] OTHER ->
                              [s EXCEPT !.base = combine(s.base, s.base)])
    IN  run(1, [h |-> h, res |-> h, base |-> h])

-----------------------------------------------------------------------------
(* The toy codec of gic/codec.py: the element is written as decimal text.  *)

\* str(n).encode("utf-8") for an integer n
RECURSIVE DecStr(_)
DecStr(n) ==
    IF n < 0 THEN <<45>> \o DecStr(-n)
    ELSE IF n < 10 THEN <<48 + n>>
    ELSE Append(DecStr(n \div 10), 48 + (n % 10))

encode_simple(R, id) == Ok(PrefixR \o DecStr(R) \o DelimId \o id)

\* The ASCII characters str.strip() and int() treat as white space.
AsciiSpace == {9, 10, 11, 12, 13, 28, 29, 30, 31, 32}
IsDigit(c) == c \in 48..57

RECURSIVE StripLeft(_)
StripLeft(s) ==
    IF Len(s) > 0 /\ s[1] \in AsciiSpace THEN StripLeft(Tail(s)) ELSE s

RECURSIVE StripRight(_)
StripRight(s) ==
    IF Len(s) > 0 /\ s[Len(s)] \in AsciiSpace
    THEN StripRight(SubSeq(s, 1, Len(s) - 1))
    ELSE s

\* The value of a digit string in which single underscores may separate
\* digits; the caller has checked its form.
RECURSIVE DigitsValue(_)
DigitsValue(s) ==
    IF Len(s) = 0 THEN 0
    ELSE IF s[Len(s)] = 95 THEN DigitsValue(SubSeq(s, 1, Len(s) - 1))
    ELSE 10 * DigitsValue(SubSeq(s, 1, Len(s) - 1)) + (s[Len(s)] - 48)

\* int(s.decode("utf-8")) for ASCII bytes s: None when int() raises
\* ValueError.  (decode_simple_int catches every exception; bytes >= 128
\* are outside the inputs of the model.)
py_int(s) ==
    LET t == StripRight(StripLeft(s))
        signed == Len(t) > 0 /\ t[1] \in {43, 45}
        d == IF signed THEN Tail(t) ELSE t
        wellFormed ==
            /\ Len(d) > 0
            /\ \A i \in 1..Len(d) : IsDigit(d[i]) \/ d[i] = 95
            /\ IsDigit(d[1]) /\ IsDigit(d[Len(d)])
            /\ \A i \in 1..(Len(d) - 1) : ~(d[i] = 95 /\ d[i + 1] = 95)
    IN  IF \E i \in 1..Len(s) : s[i] >= 128 THEN None
        ELSE IF ~wellFormed THEN None
        ELSE IF signed /\ t[1] = 45 THEN Some(-DigitsValue(d))
        ELSE Some(DigitsValue(d))

\* The offsets at which sep occurs in b (0-based, as bytes.find).
Occurrences(b, sep) ==
    {i \in 0..(Len(b) - Len(sep)) : SubSeq(b, i + 1, i + Len(sep)) = sep}

SetMin(S) == CHOOSE x \in S : \A y \in S : x <= y

\* decode_simple_int: iCer.split(b"|id=", 1), then the prefix, then int().
decode_simple_int(b) ==
    LET occ == Occurrences(b, DelimId)
    IN  IF occ = {} THEN None
        ELSE LET at == SetMin(occ)
                 left == Upto(b, at)
                 id == From(b, at + 4)
             IN  IF ~StartsWith(left, PrefixR) THEN None
                 ELSE LET R == py_int(From(left, 2))
                      IN  IF R = None THEN None ELSE Some(<<R[1], id>>)

-----------------------------------------------------------------------------
(* The GQ codec: a fixed-length big-endian element field.                  *)

\* k of make_encode_decode_for_modulus
gq_k(N) == (bit_length(N) + 7) \div 8

\* encode that writes the element with as few bytes as it needs.
gq_encode_minimal(N, RU, id) ==
    Ok(PrefixR \o int_to_fixed_bytes(RU % N, (bit_length(RU % N) + 7) \div 8)
       \o DelimId \o id)

gq_encode(N, RU, id) ==
    Ok(PrefixR \o int_to_fixed_bytes(RU % N, gq_k(N)) \o DelimId \o id)

\* decode that finds the delimiter by searching from the right
\* (iCer.rsplit(b"|id=", 1)).
gq_decode_rsplit(N, b) ==
    LET occ == Occurrences(b, DelimId)
    IN  IF occ = {} THEN None
        ELSE LET at == CHOOSE i \in occ : \A j \in occ : j <= i
                 left == Upto(b, at)
                 RU == int_from_fixed_bytes(From(left, 2)) % N
             IN  IF ~StartsWith(left, PrefixR) THEN None
                 ELSE IF Len(left) # 2 + gq_k(N) THEN None
                 ELSE IF GCD(RU, N) # 1 THEN None
                 ELSE Some(<<RU, From(b, at + 4)>>)

gq_decode(N, b) ==
    LET k == gq_k(N)
        rest == From(b, 2)
        RU_bytes == Upto(rest, k)
        tail == From(rest, k)
        RU == int_from_fixed_bytes(RU_bytes) % N
    IN  IF ~StartsWith(b, PrefixR) THEN None
        ELSE IF Len(rest) < k + 4 THEN None
        ELSE IF ~StartsWith(tail, DelimId) THEN None
        ELSE IF GCD(RU, N) # 1 THEN None
        ELSE Some(<<RU, From(tail, 4)>>)

-----------------------------------------------------------------------------
(* The Schnorr codec: 33-byte SEC1 compressed points.                      *)

RU_LEN == 33

\* min(int.from_bytes(b, "big"), cap) for cap <= 2^24: the decoders compare
\* the integer with the field modulus before they use it, and 2^256 is no
\* TLC integer.  A set byte above the low three makes the integer >= 2^24.
int_from_bytes_capped(b, cap) ==
    LET n == Len(b)
        low == int_from_fixed_bytes(SubSeq(b, IF n > 3 THEN n - 2 ELSE 1, n))
    IN  IF \E i \in 1..(n - 3) : b[i] # 0 THEN cap
        ELSE IF low > cap THEN cap ELSE low

SquareRoots(v, p) == {y \in 0..(p - 1) : (y * y) % p = v % p}

point_to_bytes_compressed(A) ==
    IF A = INFINITY THEN ValueError
    ELSE Ok(<<IF A.y % 2 = 1 THEN 3 ELSE 2>>
            \o int_to_fixed_bytes(A.x, RU_LEN - 1))

point_from_bytes_compressed(buf) ==
    IF Len(buf) # RU_LEN THEN None
    ELSE IF buf[1] \notin {2, 3} THEN None
    ELSE LET p == P256.p
             x == int_from_bytes_capped(Tail(buf), p)
             rhs == (ModExp(x, 3, p) + ((P256.a * x) % p) + P256.b) % p
         IN  IF x >= p THEN None
             ELSE IF SquareRoots(rhs, p) = {} THEN None
             ELSE LET y0 == CHOOSE y \in SquareRoots(rhs, p) : TRUE
                      y == IF y0 % 2 # buf[1] % 2 THEN (-y0) % p ELSE y0
                      A == Pt(x, y)
                  IN  \* Point(curve, x, y, q) asserts q * A = INFINITY
                      IF ec_scalar(P256, P256.q, A) # INFINITY THEN None
                      ELSE Some(A)

p256_encode(RU, id) ==
    LET e == point_to_bytes_compressed(RU)
    IN  IF ~IsOk(e) THEN e ELSE Ok(PrefixR \o Val(e) \o DelimId \o id)

p256_decode(b) ==
    LET rest == From(b, 2)
        RU_bytes == Upto(rest, RU_LEN)
        tail == From(rest, RU_LEN)
        RU == point_from_bytes_compressed(RU_bytes)
    IN  IF ~StartsWith(b, PrefixR) THEN None
        ELSE IF Len(rest) < RU_LEN + 4 THEN None
        ELSE IF ~StartsWith(tail, DelimId) THEN None
        ELSE IF RU = None THEN None
        ELSE Some(<<RU[1], From(tail, 4)>>)

-----------------------------------------------------------------------------
(* The BLS codec: 48-byte compressed G1 points.  The 384-bit integer of    *)
(* compress_G1 is c_flag 2^383 + b_flag 2^382 + a_flag 2^381 + x: its      *)
(* first byte holds the three flags and the top five bits of x.            *)

G1_RU_LEN == 48

\* a_flag of compress_G1: (y * 2) // q for the field modulus q
bls_a_flag(y) == (y * 2) \div BLS.p

g1_to_bytes_compressed(A0) ==
    LET A == to_jacobian(A0)
    IN  IF bls_is_inf(A) THEN <<192>> \o int_to_fixed_bytes(0, G1_RU_LEN - 1)
        ELSE <<128 + 32 * bls_a_flag(A.y)>>
             \o int_to_fixed_bytes(A.x, G1_RU_LEN - 1)

\* decompress_G1, then is_on_curve and _canon_g1
g1_from_bytes_compressed(buf) ==
    IF Len(buf) # G1_RU_LEN THEN None
    ELSE LET p == BLS.p
             c_flag == buf[1] \div 128
             b_flag == (buf[1] \div 64) % 2
             a_flag == (buf[1] \div 32) % 2
             x == int_from_bytes_capped(<<buf[1] % 32>> \o Tail(buf), p)
             is_inf_pt == x = 0
             rhs == (x * x * x + BLS.b) % p
             y0 == ModExp(rhs, (p + 1) \div 4, p)
             y == IF bls_a_flag(y0) # a_flag THEN p - y0 ELSE y0
         IN  IF c_flag # 1 THEN None
             ELSE IF (b_flag = 1) # is_inf_pt THEN None
             ELSE IF is_inf_pt THEN (IF a_flag = 1 THEN None ELSE Some(INFINITY))
             ELSE IF x >= p THEN None
             ELSE IF (y0 * y0) % p # rhs THEN None
             ELSE IF ~OnCurve(BLS, x, y % p) THEN None
             ELSE Some(canon_g1(Pt(x, y % p)))

bls_encode(RU, id) ==
    Ok(PrefixR \o g1_to_bytes_compressed(RU) \o DelimId \o id)

bls_decode(b) ==
    LET rest == From(b, 2)
        RU_bytes == Upto(rest, G1_RU_LEN)
        tail == From(rest, G1_RU_LEN)
        RU == g1_from_bytes_compressed(RU_bytes)
    IN  IF ~StartsWith(b, PrefixR) THEN None
        ELSE IF Len(rest) < G1_RU_LEN + 4 THEN None
        ELSE IF ~StartsWith(tail, DelimId) THEN None
        ELSE IF RU = None THEN None
        ELSE Some(<<RU[1], From(tail, 4)>>)

-----------------------------------------------------------------------------
(* Params.Encode and Params.Decode.                                        *)

Encode(P, R, id) ==
    CASE P.scheme = "toy" -> encode_simple(R, id)
      [] P.scheme = "gq" -> gq_encode(P.N, R, id)
      [] P.scheme = "schnorr" -> p256_encode(R, id)
      [] OTHER -> bls_encode(R, id)

Decode(P, b) ==
    CASE P.scheme = "toy" -> decode_simple_int(b)
      [] P.scheme = "gq" -> gq_decode(P.N, b)
      [] P.scheme = "schnorr" -> p256_decode(b)
      [] OTHER -> bls_decode(b)

-----------------------------------------------------------------------------
(* The random oracle of gic/ro.py.                                         *)

\* The width of a digest in bytes (32 for SHA-256; 2 in the model, so that
\* the digest as an integer is a TLC integer).
DigestLen == 2

\* The bytes the digests of the model are made of.
DigestByteVals == {0, 1, 255}
Digests == [1..DigestLen -> DigestByteVals]

\* ro_default, given sha256(iCer).digest()
\* ro_default without the 1 +: a value in [0, 2^lam - 1].
ro_default_zeroBased(digest, lam) ==
    int_from_fixed_bytes(digest) % Pow2(lam)

ro_default(digest, lam) ==
    LET h == int_from_fixed_bytes(digest)
    IN  1 + (h % Pow2(lam))

\* sha256(b).digest(), for the hash function sha: the table of the digests
\* returned so far and the digest of the one input hashed next.
sha256(sha, b) == IF b \in DOMAIN sha.tbl THEN sha.tbl[b] ELSE sha.fresh

\* Params.RO = lambda cer: ro_default(cer, lam=lam)
RO(P, sha, cer) == ro_default(sha256(sha, cer), P.lam)

-----------------------------------------------------------------------------
(* The four protocol operations of gic/core.py.  The values the sampler    *)
(* returns and the hash function sha are parameters.                       *)

\* The challenge with the verifier hashing the certificate without its last
\* byte.
challenge_verifierTruncates(P, site, cer, sha) ==
    IF site = "PKRecon" THEN RO(P, sha, Upto(cer, Len(cer) - 1))
    ELSE RO(P, sha, cer)

\* e = params.RO(iCer), as computed at the call site `site`: in iCertGen,
\* in SKGen and in PKRecon.
challenge(P, site, cer, sha) == RO(P, sha, cer)

\* Setup that derives the public key from another secret than the one it
\* returns.
Setup_keyOfNext(P, s) ==
    LET pk == keygen(P, s + 1)
    IN  IF ~IsOk(pk) THEN pk ELSE Ok(<<s, Val(pk)>>)

\* Setup, where sample_H() returns s
Setup(P, s) ==
    LET pk == keygen(P, s)
    IN  IF ~IsOk(pk) THEN pk ELSE Ok(<<s, Val(pk)>>)

\* iCertGen that hands the User the unblinded e (.) k_C as its r.
iCertGen_userGetsUnblinded(P, id, skC, kU, kC, sha) ==
    LET K_U == keygen(P, kU)
        K_C == keygen(P, kC)
    IN  IF ~IsOk(K_U) THEN K_U
        ELSE IF ~IsOk(K_C) THEN K_C
        ELSE LET R_U == E_mul(P, Val(K_U), Val(K_C))
                 enc == Encode(P, R_U, id)
             IN  IF ~IsOk(enc) THEN enc
                 ELSE LET cer == Val(enc)
                          e == RO(P, sha, cer)
                          r == H_add(P, z_action_H(P, e, kC), skC)
                      IN  Ok(<< <<cer, [k_C |-> kC, r |-> r]>>,
                                <<cer, [k_U |-> kU,
                                        r |-> z_action_H(P, e, kC)]>> >>)

\* iCertGen that leaves the CA's k_C in the User's view.
iCertGen_leaksKC(P, id, skC, kU, kC, sha) ==
    LET K_U == keygen(P, kU)
        K_C == keygen(P, kC)
    IN  IF ~IsOk(K_U) THEN K_U
        ELSE IF ~IsOk(K_C) THEN K_C
        ELSE LET R_U == E_mul(P, Val(K_U), Val(K_C))
                 enc == Encode(P, R_U, id)
             IN  IF ~IsOk(enc) THEN enc
                 ELSE LET cer == Val(enc)
                          e == RO(P, sha, cer)
                          r == H_add(P, z_action_H(P, e, kC), skC)
                      IN  Ok(<< <<cer, [k_C |-> kC, r |-> r]>>,
                                <<cer, [k_U |-> kU, r |-> r, k_C |-> kC]>> >>)

\* iCertGen that blinds with the User's k_U instead of the CA's k_C.
iCertGen_blindsWithKU(P, id, skC, kU, kC, sha) ==
    LET K_U == keygen(P, kU)
        K_C == keygen(P, kC)
    IN  IF ~IsOk(K_U) THEN K_U
        ELSE IF ~IsOk(K_C) THEN K_C
        ELSE LET R_U == E_mul(P, Val(K_U), Val(K_C))
                 enc == Encode(P, R_U, id)
             IN  IF ~IsOk(enc) THEN enc
                 ELSE LET cer == Val(enc)
                          e == RO(P, sha, cer)
                          r == H_add(P, z_action_H(P, e, kU), skC)
                      IN  Ok(<< <<cer, [k_C |-> kC, r |-> r]>>,
                                <<cer, [k_U |-> kU, r |-> r]>> >>)

\* iCertGen, where the two sample_H() calls return kU and then kC
iCertGen(P, id, skC, kU, kC, sha) ==
    LET K_U == keygen(P, kU)
        K_C == keygen(P, kC)
    IN  IF ~IsOk(K_U) THEN K_U
        ELSE IF ~IsOk(K_C) THEN K_C
        ELSE LET R_U == E_mul(P, Val(K_U), Val(K_C))
                 enc == Encode(P, R_U, id)
             IN  IF ~IsOk(enc) THEN enc
                 ELSE LET cer == Val(enc)
                          e == challenge(P, "iCertGen", cer, sha)
                          r == H_add(P, z_action_H(P, e, kC), skC)
                      IN  Ok(<< <<cer, [k_C |-> kC, r |-> r]>>,
                                <<cer, [k_U |-> kU, r |-> r]>> >>)

\* SKGen without the blinding value: sk_U := e (.) k_U.
SKGen_dropsR(P, viewU, cer, sha) ==
    z_action_H(P, RO(P, sha, cer), viewU.k_U)

\* SKGen
SKGen(P, viewU, cer, sha) ==
    LET e == challenge(P, "SKGen", cer, sha)
    IN  H_add(P, z_action_H(P, e, viewU.k_U), viewU.r)

\* PKRecon that answers with the CA's key when Decode fails.
PKRecon_fallsBack(P, cer, pkC, sha) ==
    LET decoded == Decode(P, cer)
    IN  IF decoded = None THEN Some(pkC)
        ELSE LET R_U == decoded[1][1]
                 e == RO(P, sha, cer)
             IN  Some(E_mul(P, z_action_E(P, e, R_U), pkC))

\* PKRecon
PKRecon(P, cer, pkC, sha) ==
    LET decoded == Decode(P, cer)
    IN  IF decoded = None THEN None
        ELSE LET R_U == decoded[1][1]
                 e == challenge(P, "PKRecon", cer, sha)
             IN  Some(E_mul(P, z_action_E(P, e, R_U), pkC))

-----------------------------------------------------------------------------
(* The inputs of the runs.                                                 *)

\* RSA moduli gen_rsa_modulus returns: 35 = 5 * 7 (bits = 6) and
\* 323 = 17 * 19 (bits = 10, a two-byte element field).
GQModuli == {35, 323}

\* lam: 16 in the toy and GQ tests; the curve bundles get a lam of half the
\* digest width, as lam = 128 is of SHA-256's.
ParamSet ==
    {[scheme |-> "toy", N |-> 0, lam |-> 16]}
    \cup {[scheme |-> "gq", N |-> n, lam |-> 16] : n \in GQModuli}
    \cup {[scheme |-> "schnorr", N |-> 0, lam |-> 8],
          [scheme |-> "bls", N |-> 0, lam |-> 8]}

\* The values each sampler can return: sample_H of the toy test
\* (randbelow(Q)), make_sampler_zstar and make_sampler_zq.
SamplerRange(P) ==
    CASE P.scheme = "toy" -> 0..(Q - 1)
      [] P.scheme = "gq" -> {x \in 2..(P.N - 1) : GCD(x, P.N) = 1}
      [] P.scheme = "schnorr" -> 1..(P256.q - 1)
      [] OTHER -> 1..(BLS.q - 1)

\* The MaxSample+1 smallest and the MaxSample+1 largest elements of S.
RECURSIVE Smallest(_, _)
Smallest(S, n) ==
    IF n = 0 \/ S = {} THEN {}
    ELSE LET m == CHOOSE x \in S : \A y \in S : x <= y
         IN  {m} \cup Smallest(S \ {m}, n - 1)

RECURSIVE Largest(_, _)
Largest(S, n) ==
    IF n = 0 \/ S = {} THEN {}
    ELSE LET m == CHOOSE x \in S : \A y \in S : x >= y
         IN  {m} \cup Largest(S \ {m}, n - 1)

SamplesOf ==
    [P \in ParamSet |->
        IF P.scheme = "toy"
        THEN (0..MaxSample) \cup ((Q - 1 - MaxSample)..(Q - 1))
        ELSE Smallest(SamplerRange(P), MaxSample + 1)
             \cup Largest(SamplerRange(P), MaxSample + 1)]

Samples(P) == SamplesOf[P]

\* Identities: b"", b"alice", one containing b"|id=", one containing b"R=",
\* and every string of at most MaxIdLen bytes over IdBytes.
IdBytes == {0}
FixedIds == {Alice, <<120>> \o DelimId \o <<121>>, PrefixR \o <<49>>}
Ids == FixedIds \cup UNION {[1..n -> IdBytes] : n \in 0..MaxIdLen}

-----------------------------------------------------------------------------
(* The runs.                                                               *)

NoCalls == [op |-> "none", ro |-> 0, grp |-> 0]

\* SHA-256 as the table sampled so far, with d the digest of a new input.
Sha(tbl, d) == [tbl |-> tbl, fresh |-> d]
Record(tbl, d, b) == IF b \in DOMAIN tbl THEN tbl ELSE (b :> d) @@ tbl

\* The digests SHA-256 can return for b: the one it returned before, or any.
FreshDigests(tbl, b) == {d \in Digests : b \in DOMAIN tbl => d = tbl[b]}

\* The group operations of one scalar action: one doubling per bit of a and
\* one combine per set bit.
RECURSIVE z_loop_ops(_)
z_loop_ops(n) == IF n > 0 THEN (n % 2) + 1 + z_loop_ops(n \div 2) ELSE 0
z_action_ops(a) == IF a = 0 THEN 0 ELSE IF a < 0 THEN 1 + z_loop_ops(-a) ELSE z_loop_ops(a)

Init ==
    /\ params \in ParamSet
    /\ done = {}
    /\ sk_C = None /\ pk_C = None
    /\ identity = <<>>
    /\ iCer = None /\ view_CA = None /\ view_U = None
    /\ sk_U = None /\ pk_U = None
    /\ rcv = <<>>
    /\ err = "none"
    /\ oracle = <<>>
    /\ calls = NoCalls
    /\ arg = <<>> /\ ret = <<>>

SetupAct ==
    /\ err = "none" /\ "Setup" \notin done
    /\ \E s \in Samples(params) :
         LET res == Setup(params, s)
         IN  /\ err' = IF IsOk(res) THEN "none" ELSE "Setup"
             /\ sk_C' = IF IsOk(res) THEN Some(Val(res)[1]) ELSE None
             /\ pk_C' = IF IsOk(res) THEN Some(Val(res)[2]) ELSE None
    /\ done' = done \cup {"Setup"}
    /\ calls' = [op |-> "Setup", ro |-> 0, grp |-> 0]
    /\ UNCHANGED <<params, identity, iCer, view_CA, view_U, sk_U, pk_U, rcv,
                   oracle, arg, ret>>

iCertGenAct ==
    /\ err = "none" /\ "Setup" \in done /\ "iCertGen" \notin done
    /\ \E id \in Ids, kU \in Samples(params), kC \in Samples(params),
          d \in Digests :
         LET Hash == Sha(oracle, d)
             res == iCertGen(params, id, sk_C[1], kU, kC, Hash)
         IN  /\ identity' = id
             /\ err' = IF IsOk(res) THEN "none" ELSE "iCertGen"
             /\ iCer' = IF IsOk(res) THEN Some(Val(res)[2][1]) ELSE None
             /\ view_CA' = IF IsOk(res) THEN Some(Val(res)[1][2]) ELSE None
             /\ view_U' = IF IsOk(res) THEN Some(Val(res)[2][2]) ELSE None
             /\ oracle' = IF IsOk(res) THEN Record(oracle, d, Val(res)[1][1])
                          ELSE oracle
             /\ calls' = [op |-> "iCertGen",
                          ro |-> IF IsOk(res) THEN 1 ELSE 0,
                          grp |-> 0]
    /\ done' = done \cup {"iCertGen"}
    /\ UNCHANGED <<params, sk_C, pk_C, sk_U, pk_U, rcv, arg, ret>>

SKGenAct ==
    /\ err = "none" /\ "iCertGen" \in done /\ "SKGen" \notin done
    /\ \E d \in FreshDigests(oracle, iCer[1]) :
         LET Hash == Sha(oracle, d)
         IN  /\ sk_U' = Some(SKGen(params, view_U[1], iCer[1], Hash))
             /\ oracle' = Record(oracle, d, iCer[1])
    /\ done' = done \cup {"SKGen"}
    /\ calls' = [op |-> "SKGen", ro |-> 1, grp |-> 0]
    /\ UNCHANGED <<params, sk_C, pk_C, identity, iCer, view_CA, view_U, pk_U,
                   rcv, err, arg, ret>>

\* The verifier calls PKRecon on the bytes b.
PKReconAct(b) ==
    /\ err = "none" /\ "Setup" \in done /\ "PKRecon" \notin done
    /\ \E d \in FreshDigests(oracle, b) :
         LET Hash == Sha(oracle, d)
             decoded == Decode(params, b)
         IN  /\ pk_U' = PKRecon(params, b, pk_C[1], Hash)
             /\ oracle' = IF decoded = None THEN oracle
                          ELSE Record(oracle, d, b)
             /\ calls' =
                  IF decoded = None
                  THEN [op |-> "PKRecon", ro |-> 0, grp |-> 0]
                  ELSE [op |-> "PKRecon", ro |-> 1,
                        grp |-> z_action_ops(RO(params, Hash, b)) + 1]
    /\ rcv' = b
    /\ done' = done \cup {"PKRecon"}
    /\ UNCHANGED <<params, sk_C, pk_C, identity, iCer, view_CA, view_U, sk_U,
                   err, arg, ret>>

\* One run without tampering: the verifier receives the issued certificate.
PKReconIssued ==
    /\ "iCertGen" \in done
    /\ PKReconAct(iCer[1])

Next == SetupAct \/ iCertGenAct \/ SKGenAct \/ PKReconIssued

Spec == Init /\ [][Next]_vars

-----------------------------------------------------------------------------
(* The functions of the bundles applied on their own: each action below    *)
(* applies one function to arguments drawn from a bounded set and records  *)
(* the call in arg and the result in ret.                                  *)

\* Elements of the toy group Z_Q: the small ones, the ones at which the
\* decimal text grows by a digit, and the largest.
ToyElements == (0..MaxScalar) \cup {99, 100, 999, 1000, 9999, 10000, Q - 1}

\* The elements of the public-key group E of each bundle: Z_Q, Z_N^*, the
\* curve group (prime order, so the whole curve) and G1.
Elements(P) ==
    CASE P.scheme = "toy" -> ToyElements
      [] P.scheme = "gq" -> {r \in 1..(P.N - 1) : GCD(r, P.N) = 1}
      [] P.scheme = "schnorr" -> CurvePoints(P256)
      [] OTHER -> {canon_g1(ec_scalar(BLS, k, Gen(BLS))) : k \in 0..(BLS.q - 1)}

\* The length of the element field of the fixed-length codecs.
FieldLen(P) ==
    CASE P.scheme = "gq" -> gq_k(P.N)
      [] P.scheme = "schnorr" -> RU_LEN
      [] OTHER -> G1_RU_LEN

\* The element field Encode writes for R (R is not the P-256 identity).
serialize(P, R) ==
    CASE P.scheme = "toy" -> DecStr(R)
      [] P.scheme = "gq" -> int_to_fixed_bytes(R % P.N, gq_k(P.N))
      [] P.scheme = "schnorr" -> Val(point_to_bytes_compressed(R))
      [] OTHER -> g1_to_bytes_compressed(R)

\* The elements Encode has a field for.
Encodable(P) ==
    IF P.scheme = "schnorr" THEN Elements(P) \ {INFINITY} ELSE Elements(P)

\* n zero bytes
Zeros(n) == [i \in 1..n |-> 0]

\* Element fields given to the decoders, valid and invalid.
\* toy: decimal texts and what int() accepts or rejects besides them.
ToyTexts ==
    { <<>>, <<48>>, <<55>>, <<48, 48, 55>>, <<45, 53>>, <<43, 53>>,
      <<32, 53>>, <<53, 32>>, <<53, 10>>, <<49, 95, 48>>, <<95, 49>>,
      <<49, 95, 95, 48>>, <<49, 95>>, <<53, 120>>, <<45>>, <<45, 32, 53>>,
      <<49, 46, 53>>, <<48, 120, 49, 102>>, <<54, 53, 53, 51, 55>>,
      <<49, 48>>, <<49, 50, 51>> }

\* gq: the integers around 0, N and 2N and the largest of the field.
GQFieldValues(N) ==
    LET top == Pow256(gq_k(N)) - 1
    IN  {v \in (0..MaxScalar) \cup ((N - MaxScalar)..(N + MaxScalar))
               \cup ((2 * N - 1)..(2 * N + 1)) \cup {top} : v >= 0 /\ v <= top}

\* schnorr: a first byte that is or is not 2 or 3, then x from 0 past the
\* field modulus, or an x with a high byte set, or with b"|id=" inside.
P256Fields ==
    {<<t>> \o int_to_fixed_bytes(x, RU_LEN - 1) :
        t \in {0, 2, 3, 4}, x \in 0..(P256.p + 1)}
    \cup {<<t>> \o <<1>> \o Zeros(RU_LEN - 2) : t \in {2, 3}}
    \cup {<<2>> \o Zeros(RU_LEN - 6) \o DelimId \o <<2>>}

\* bls: every value of the three flag bits, then x from 0 past the field
\* modulus, or an x with a high bit or byte set, or with b"|id=" inside.
G1Fields ==
    {<<f>> \o int_to_fixed_bytes(x, G1_RU_LEN - 1) :
        f \in {0, 32, 64, 96, 128, 160, 192, 224}, x \in 0..(BLS.p + 1)}
    \cup {<<f>> \o int_to_fixed_bytes(x, G1_RU_LEN - 1) :
            f \in {129, 161, 193}, x \in {0, 1}}
    \cup {<<128>> \o <<1>> \o Zeros(G1_RU_LEN - 2),
          <<128>> \o Zeros(G1_RU_LEN - 6) \o DelimId \o <<1>>}

Fields(P) ==
    CASE P.scheme = "toy" -> ToyTexts \cup {DecStr(R) : R \in ToyElements}
      [] P.scheme = "gq" ->
           {int_to_fixed_bytes(v, gq_k(P.N)) : v \in GQFieldValues(P.N)}
      [] P.scheme = "schnorr" -> P256Fields
      [] OTHER -> G1Fields

\* Two fields Encode writes: of keygen(1) and of keygen(2).
RefFields(P) == {serialize(P, Val(keygen(P, s))) : s \in {1, 2}}

\* Prefixes and delimiters that are not b"R=" and b"|id=".
BadPrefixes == {<<>>, <<82>>, <<114, 61>>, <<61, 82>>, <<82, 61, 82, 61>>}
BadDelims == {<<>>, <<124, 105, 100>>, <<124, 73, 68, 61>>,
              <<105, 100, 61, 124>>, <<120>> \o DelimId}

\* Identities of the decoder inputs: b"", b"x|id=y", b"R=1", b"|id=".
CodecIds == {<<>>, <<120>> \o DelimId \o <<121>>, PrefixR \o <<49>>, DelimId}

\* Every prefix b[:n] of b, b included.
Truncations(b) == {Upto(b, n) : n \in 0..Len(b)}

\* The byte strings given to Decode and to PKRecon: a certificate for every
\* field and identity; then, for the fields Encode writes, another prefix,
\* another delimiter, a field one byte short or long, and every truncation;
\* and the malformed inputs of the tests.
CodecInputs(P) ==
    {PrefixR \o f \o DelimId \o id : f \in Fields(P), id \in CodecIds}
    \cup {pre \o f \o DelimId \o id :
            pre \in BadPrefixes, f \in RefFields(P), id \in CodecIds}
    \cup {PrefixR \o f \o del \o id :
            del \in BadDelims, f \in RefFields(P), id \in CodecIds}
    \cup {PrefixR \o g \o DelimId \o id :
            g \in UNION {{Upto(f, Len(f) - 1), f \o <<0>>, <<0>> \o f} :
                            f \in RefFields(P)},
            id \in CodecIds}
    \cup UNION {Truncations(PrefixR \o f \o DelimId) : f \in RefFields(P)}
    \cup {NotAnICert, Garbage}

\* Encode(R, id)
EncodeAct ==
    /\ arg = <<>> /\ done = {}
    /\ \E R \in Elements(params), id \in Ids :
         /\ arg' = <<"Encode", R, id>>
         /\ ret' = Encode(params, R, id)
    /\ UNCHANGED <<params, done, sk_C, pk_C, identity, iCer, view_CA, view_U,
                   sk_U, pk_U, rcv, err, oracle, calls>>

\* Decode(Encode(R, id)): raises what Encode raises.
RoundTripAct ==
    /\ arg = <<>> /\ done = {}
    /\ \E R \in Elements(params), id \in Ids :
         LET enc == Encode(params, R, id)
         IN  /\ arg' = <<"RoundTrip", R, id>>
             /\ ret' = IF IsOk(enc) THEN Ok(Decode(params, Val(enc))) ELSE enc
    /\ UNCHANGED <<params, done, sk_C, pk_C, identity, iCer, view_CA, view_U,
                   sk_U, pk_U, rcv, err, oracle, calls>>

\* Decode(b)
DecodeAct ==
    /\ arg = <<>> /\ done = {}
    /\ \E b \in CodecInputs(params) :
         /\ arg' = <<"Decode", b>>
         /\ ret' = Decode(params, b)
    /\ UNCHANGED <<params, done, sk_C, pk_C, identity, iCer, view_CA, view_U,
                   sk_U, pk_U, rcv, err, oracle, calls>>

NextCodec == EncodeAct \/ RoundTripAct \/ DecodeAct

SpecCodec == Init /\ [][NextCodec]_vars

\* The verifier is handed arbitrary bytes.
PKReconAdversarial == \E b \in CodecInputs(params) : PKReconAct(b)

NextAdv == SetupAct \/ PKReconAdversarial

SpecAdv == Init /\ [][NextAdv]_vars

\* The challenges given to the scalar action: 1..MaxScalar and the largest
\* value RO returns, 2^lam.
Challenges(P) == (1..MaxScalar) \cup {Pow2(P.lam)}

\* Secret keys of the toy and GQ bundles: the elements of Z_Q and of Z_N^*
\* within MaxScalar of either end of the range.
SecretKeys(P) ==
    IF P.scheme = "toy"
    THEN {x \in 0..MaxScalar : x <= MaxSample + 2}
         \cup ((Q - 3 - MaxSample)..(Q - 1))
    ELSE {x \in Elements(P) : x <= MaxScalar \/ x >= P.N - MaxScalar}

\* Both sides of the homomorphism for the challenge e and the keys x, y:
\* keygen(add(e (.) x, y)) and mul(e (.) keygen(x), keygen(y)).
HomAct ==
    /\ arg = <<>> /\ done = {}
    /\ \E e \in Challenges(params), x \in SecretKeys(params),
          y \in SecretKeys(params) :
         /\ arg' = <<"Hom", e, x, y>>
         /\ ret' = <<keygen(params, H_add(params, z_action_H(params, e, x), y)),
                     E_mul(params,
                           z_action_E(params, e, Val(keygen(params, x))),
                           Val(keygen(params, y)))>>
    /\ UNCHANGED <<params, done, sk_C, pk_C, identity, iCer, view_CA, view_U,
                   sk_U, pk_U, rcv, err, oracle, calls>>

InitHom == Init /\ params.scheme \in {"toy", "gq"}

NextHom == HomAct

SpecHom == InitHom /\ [][NextHom]_vars

\* ro_default(b, lam), where sha256(b) is any digest d
ROAct ==
    /\ arg = <<>> /\ done = {}
    /\ \E b \in Ids, lam \in 0..MaxLam, d \in Digests :
         /\ arg' = <<"RO", b, lam, d>>
         /\ ret' = ro_default(sha256(Sha(oracle, d), b), lam)
         /\ oracle' = Record(oracle, d, b)
    /\ UNCHANGED <<params, done, sk_C, pk_C, identity, iCer, view_CA, view_U,
                   sk_U, pk_U, rcv, err, calls>>

InitRO == Init /\ params.scheme = "toy"

NextRO == ROAct

SpecRO == InitRO /\ [][NextRO]_vars

-----------------------------------------------------------------------------
(* Setup, keygen, the samplers, iCertGen and the scalar action applied on  *)
(* their own.                                                              *)

\* The modulus keygen reduces its argument by: Q, N, q.
Modulus(P) ==
    CASE P.scheme = "toy" -> Q
      [] P.scheme = "gq" -> P.N
      [] P.scheme = "schnorr" -> P256.q
      [] OTHER -> BLS.q

\* The secret keys keygen is defined on: Z_Q, the units of Z_N, and the
\* non-zero residues mod q.
ValidSecrets(P) ==
    CASE P.scheme = "toy" -> 0..(Q - 1)
      [] P.scheme = "gq" -> {x \in 1..(P.N - 1) : GCD(x, P.N) = 1}
      [] OTHER -> 1..(Modulus(P) - 1)

\* The integers given to keygen and to Setup as the sampler's value: from
\* -MaxScalar to MaxScalar above the modulus (for the toy bundle, the ones
\* within MaxScalar of 0 and of Q).
KeyInputs(P) ==
    {x \in (-MaxScalar)..(Modulus(P) + MaxScalar) :
        P.scheme = "toy" => (x <= MaxScalar \/ x >= Q - MaxScalar)}

\* Setup(params, sample_H) with a sampler that returns s
SetupFnAct ==
    /\ arg = <<>> /\ done = {}
    /\ \E s \in KeyInputs(params) :
         /\ arg' = <<"Setup", s>>
         /\ ret' = Setup(params, s)
    /\ UNCHANGED <<params, done, sk_C, pk_C, identity, iCer, view_CA, view_U,
                   sk_U, pk_U, rcv, err, oracle, calls>>

\* params.keygen(s)
KeygenAct ==
    /\ arg = <<>> /\ done = {}
    /\ \E s \in KeyInputs(params) :
         /\ arg' = <<"keygen", s>>
         /\ ret' = keygen(params, s)
    /\ UNCHANGED <<params, done, sk_C, pk_C, identity, iCer, view_CA, view_U,
                   sk_U, pk_U, rcv, err, oracle, calls>>

\* sample() of make_sampler_zstar(N) and make_sampler_zq(q)
SampleAct ==
    /\ arg = <<>> /\ done = {}
    /\ params.scheme # "toy"
    /\ \E s \in SamplerRange(params) :
         /\ arg' = <<"sample_H">>
         /\ ret' = s
    /\ UNCHANGED <<params, done, sk_C, pk_C, identity, iCer, view_CA, view_U,
                   sk_U, pk_U, rcv, err, oracle, calls>>

\* The sk_C given to iCertGen: the values of the samplers and, as sk_C is
\* the caller's, one integer above the modulus.
IssueSecrets(P) ==
    Samples(P) \cup {Modulus(P) + s : s \in Smallest(Samples(P), 1)}

\* The digests given to iCertGen: the challenges 1 and 2^lam.
IssueDigests == {Zeros(DigestLen), [i \in 1..DigestLen |-> 255]}

\* iCertGen(params, id, skC, sample_H), where sample_H returns kU and then
\* kC and sha256 returns d
IssueAct ==
    /\ arg = <<>> /\ done = {}
    /\ \E id \in FixedIds \cup {<<>>}, skC \in IssueSecrets(params),
          kU \in Samples(params), kC \in Samples(params),
          d \in IssueDigests :
         /\ arg' = <<"iCertGen", id, skC, kU, kC, d>>
         /\ ret' = iCertGen(params, id, skC, kU, kC, Sha(oracle, d))
    /\ UNCHANGED <<params, done, sk_C, pk_C, identity, iCer, view_CA, view_U,
                   sk_U, pk_U, rcv, err, oracle, calls>>

\* The elements given to the scalar action: of H (Z_Q, Z_N^*, Z_q) for
\* z_action_H and of E for z_action_E; of Z_N^* the ones within MaxScalar of
\* either end.
ScalarArgs(P, grp) ==
    IF grp = "E"
    THEN {X \in Elements(P) :
             P.scheme = "gq" => (X <= MaxScalar \/ X >= P.N - MaxScalar)}
    ELSE IF P.scheme \in {"toy", "gq"} THEN SecretKeys(P)
    ELSE 0..(Modulus(P) - 1)

\* z_action_H(H_ops, a, x) and z_action_E(E_ops, a, x)
ScalarAct ==
    /\ arg = <<>> /\ done = {}
    /\ \E grp \in {"H", "E"}, a \in (-MaxScalar)..MaxScalar :
         \E x \in ScalarArgs(params, grp) :
            /\ arg' = <<"z_action", grp, a, x>>
            /\ ret' = IF grp = "H" THEN z_action_H(params, a, x)
                      ELSE z_action_E(params, a, x)
    /\ UNCHANGED <<params, done, sk_C, pk_C, identity, iCer, view_CA, view_U,
                   sk_U, pk_U, rcv, err, oracle, calls>>

NextFn == SetupFnAct \/ KeygenAct \/ SampleAct \/ IssueAct \/ ScalarAct

SpecFn == Init /\ [][NextFn]_vars

-----------------------------------------------------------------------------
(* Interleaved runs.  Several runs share one Params value and one hash      *)
(* function; each operation of a run is one step.  Here every variable of   *)
(* a run is a function of the run's number, calls[i] holds the challenge    *)
(* each operation of run i computed, arg names the last step and ret keeps  *)
(* the Params value as it was constructed.                                  *)

RunIds == 1..MaxRuns

\* The sampler values of the interleaved runs: Setup draws the smallest or
\* the largest, iCertGen the smallest twice.
ConcSamples(P) == Smallest(Samples(P), 1) \cup Largest(Samples(P), 1)

InitConc ==
    /\ params \in ParamSet
    /\ done = [i \in RunIds |-> {}]
    /\ sk_C = [i \in RunIds |-> None] /\ pk_C = [i \in RunIds |-> None]
    /\ identity = [i \in RunIds |-> <<>>]
    /\ iCer = [i \in RunIds |-> None]
    /\ view_CA = [i \in RunIds |-> None] /\ view_U = [i \in RunIds |-> None]
    /\ sk_U = [i \in RunIds |-> None] /\ pk_U = [i \in RunIds |-> None]
    /\ rcv = [i \in RunIds |-> <<>>]
    /\ err = [i \in RunIds |-> "none"]
    /\ oracle = <<>>
    /\ calls = [i \in RunIds |->
                   [iCertGen |-> None, SKGen |-> None, PKRecon |-> None]]
    /\ arg = <<>>
    /\ ret = params

\* Run i: sk_C, pk_C = Setup(params, sample_H)
ConcSetup(i) ==
    /\ err[i] = "none" /\ "Setup" \notin done[i]
    /\ \E s \in ConcSamples(params) :
         LET res == Setup(params, s)
         IN  /\ err' = [err EXCEPT ![i] = IF IsOk(res) THEN "none" ELSE "Setup"]
             /\ sk_C' = [sk_C EXCEPT
                           ![i] = IF IsOk(res) THEN Some(Val(res)[1]) ELSE None]
             /\ pk_C' = [pk_C EXCEPT
                           ![i] = IF IsOk(res) THEN Some(Val(res)[2]) ELSE None]
    /\ done' = [done EXCEPT ![i] = @ \cup {"Setup"}]
    /\ arg' = <<"Setup", i>>
    /\ UNCHANGED <<params, identity, iCer, view_CA, view_U, sk_U, pk_U, rcv,
                   oracle, calls, ret>>

\* Run i: (iCer, view_CA), (_, view_U) = iCertGen(params, b"alice", sk_C,
\* sample_H)
ConcIssue(i) ==
    /\ err[i] = "none" /\ "Setup" \in done[i] /\ "iCertGen" \notin done[i]
    /\ \E kU \in Smallest(Samples(params), 1),
          kC \in Smallest(Samples(params), 1), d \in IssueDigests :
         LET Hash == Sha(oracle, d)
             res == iCertGen(params, Alice, sk_C[i][1], kU, kC, Hash)
             ok == IsOk(res)
         IN  /\ identity' = [identity EXCEPT ![i] = Alice]
             /\ err' = [err EXCEPT ![i] = IF ok THEN "none" ELSE "iCertGen"]
             /\ iCer' = [iCer EXCEPT
                           ![i] = IF ok THEN Some(Val(res)[2][1]) ELSE None]
             /\ view_CA' = [view_CA EXCEPT
                              ![i] = IF ok THEN Some(Val(res)[1][2]) ELSE None]
             /\ view_U' = [view_U EXCEPT
                             ![i] = IF ok THEN Some(Val(res)[2][2]) ELSE None]
             /\ oracle' = IF ok THEN Record(oracle, d, Val(res)[1][1])
                          ELSE oracle
             /\ calls' = [calls EXCEPT
                            ![i].iCertGen =
                                IF ok
                                THEN Some(challenge(params, "iCertGen",
                                                    Val(res)[1][1], Hash))
                                ELSE None]
    /\ done' = [done EXCEPT ![i] = @ \cup {"iCertGen"}]
    /\ arg' = <<"iCertGen", i>>
    /\ UNCHANGED <<params, sk_C, pk_C, sk_U, pk_U, rcv, ret>>

\* Run i: sk_U = SKGen(params, view_U, iCer)
ConcSKGen(i) ==
    /\ err[i] = "none" /\ "iCertGen" \in done[i] /\ "SKGen" \notin done[i]
    /\ \E d \in IssueDigests :
         LET Hash == Sha(oracle, d)
         IN  /\ sk_U' = [sk_U EXCEPT
                           ![i] = Some(SKGen(params, view_U[i][1], iCer[i][1],
                                             Hash))]
             /\ oracle' = Record(oracle, d, iCer[i][1])
             /\ calls' = [calls EXCEPT
                            ![i].SKGen = Some(challenge(params, "SKGen",
                                                        iCer[i][1], Hash))]
    /\ done' = [done EXCEPT ![i] = @ \cup {"SKGen"}]
    /\ arg' = <<"SKGen", i>>
    /\ UNCHANGED <<params, sk_C, pk_C, identity, iCer, view_CA, view_U, pk_U,
                   rcv, err, ret>>

\* Run i: pk_U = PKRecon(params, iCer, pk_C), on the iCer of run i unchanged
ConcPKRecon(i) ==
    /\ err[i] = "none" /\ "iCertGen" \in done[i] /\ "PKRecon" \notin done[i]
    /\ \E d \in IssueDigests :
         LET Hash == Sha(oracle, d)
             decoded == Decode(params, iCer[i][1])
         IN  /\ pk_U' = [pk_U EXCEPT
                           ![i] = PKRecon(params, iCer[i][1], pk_C[i][1], Hash)]
             /\ oracle' = IF decoded = None THEN oracle
                          ELSE Record(oracle, d, iCer[i][1])
             /\ calls' = [calls EXCEPT
                            ![i].PKRecon =
                                IF decoded = None THEN None
                                ELSE Some(challenge(params, "PKRecon",
                                                    iCer[i][1], Hash))]
    /\ rcv' = [rcv EXCEPT ![i] = iCer[i][1]]
    /\ done' = [done EXCEPT ![i] = @ \cup {"PKRecon"}]
    /\ arg' = <<"PKRecon", i>>
    /\ UNCHANGED <<params, sk_C, pk_C, identity, iCer, view_CA, view_U, sk_U,
                   err, ret>>

NextConc ==
    \E i \in RunIds :
       ConcSetup(i) \/ ConcIssue(i) \/ ConcSKGen(i) \/ ConcPKRecon(i)

SpecConc == InitConc /\ [][NextConc]_vars

-----------------------------------------------------------------------------
(* The benchmark harness bench/run_bench.py: main parses the command line, *)
(* applies the security profile, constructs the BenchConfig and runs the    *)
(* scheme.  Here arg is the command line, done the steps of main that have  *)
(* run, ret the profile and then the BenchConfig, and params the Params the *)
(* run constructed.                                                         *)

\* parse_args without the choices of --scheme.
parse_args_anyScheme(argv) == Ok(argv)

\* ap.parse_args(): --scheme has choices=["gq", "schnorr", "bls"], and
\* argparse exits on any other value.
parse_args(argv) ==
    IF argv.scheme \in {"gq", "schnorr", "bls"} THEN Ok(argv)
    ELSE <<"SystemExit">>

\* _apply_security_profile; sec is None or <<the level>>
apply_security_profile(scheme, bits, lam, sec) ==
    IF sec = None THEN Ok(<<bits, lam>>)
    ELSE IF sec[1] # 128 THEN ValueError
    ELSE IF scheme = "gq" THEN Ok(<<3072, 128>>)
    ELSE IF scheme \in {"schnorr", "bls"} THEN Ok(<<bits, 128>>)
    ELSE ValueError

\* Command lines: every scheme and one unknown name; no --sec, --sec 128 and
\* two other levels; --bits and --lam at their defaults and at other values.
BenchArgs ==
    [scheme : {"gq", "schnorr", "bls", "ecdsa"},
     sec : {None, Some(128), Some(112), Some(256)},
     bits : {2048, 1024, 3072},
     lam : {128, 16}]

InitBench ==
    /\ arg \in BenchArgs
    /\ done = {}
    /\ err = "none"
    /\ ret = <<>>
    /\ params = None
    /\ sk_C = None /\ pk_C = None
    /\ identity = <<>>
    /\ iCer = None /\ view_CA = None /\ view_U = None
    /\ sk_U = None /\ pk_U = None
    /\ rcv = <<>>
    /\ oracle = <<>>
    /\ calls = NoCalls

\* args = ap.parse_args()
ParseAct ==
    /\ done = {} /\ err = "none"
    /\ err' = IF IsOk(parse_args(arg)) THEN "none" ELSE "SystemExit"
    /\ done' = {"parse_args"}
    /\ UNCHANGED <<params, sk_C, pk_C, identity, iCer, view_CA, view_U, sk_U,
                   pk_U, rcv, oracle, calls, arg, ret>>

\* bits, lam = _apply_security_profile(...); cfg = BenchConfig(...)
ConfigAct ==
    /\ done = {"parse_args"} /\ err = "none"
    /\ LET res == apply_security_profile(arg.scheme, arg.bits, arg.lam,
                                         arg.sec)
       IN  IF IsOk(res)
           THEN /\ ret' = [scheme |-> arg.scheme, bits |-> Val(res)[1],
                           lam |-> Val(res)[2]]
                /\ done' = done \cup {"_apply_security_profile",
                                      "BenchConfig"}
                /\ err' = "none"
           ELSE /\ ret' = ret
                /\ done' = done \cup {"_apply_security_profile"}
                /\ err' = "ValueError"
    /\ UNCHANGED <<params, sk_C, pk_C, identity, iCer, view_CA, view_U, sk_U,
                   pk_U, rcv, oracle, calls, arg>>

\* The steps of run_gq, run_schnorr and run_bls, by name.
RunSteps(scheme) ==
    (IF scheme = "gq" THEN {"gen_rsa_modulus"} ELSE {})
    \cup {"make_params", "Setup", "iCertGen", "SKGen", "PKRecon"}

\* if cfg.scheme == "gq": run_gq(cfg) elif cfg.scheme == "schnorr":
\* run_schnorr(cfg) else: run_bls(cfg)
RunAct ==
    /\ "BenchConfig" \in done /\ "make_params" \notin done /\ err = "none"
    /\ LET run == IF ret.scheme \in {"gq", "schnorr"} THEN ret.scheme
                  ELSE "bls"
       IN  /\ params' = Some([scheme |-> run, bits |-> ret.bits,
                              lam |-> ret.lam])
           /\ done' = done \cup RunSteps(run)
    /\ UNCHANGED <<sk_C, pk_C, identity, iCer, view_CA, view_U, sk_U, pk_U,
                   rcv, err, oracle, calls, arg, ret>>

NextBench == ParseAct \/ ConfigAct \/ RunAct

SpecBench == InitBench /\ [][NextBench]_vars

-----------------------------------------------------------------------------
(* The loops over the random source of instantiations/gq/inst.py: the      *)
(* rejection sampler of Z_N^* and the generation of the RSA modulus.  One  *)
(* step is one draw from the random source with what the loop does with    *)
(* it.  arg is the call, calls holds the local variables of the call and   *)
(* the position in it, rcv the last candidate rejected, ret the value      *)
(* returned.                                                                *)

small_primes == {2, 3, 5, 7, 11, 13, 17, 19, 23, 29, 31, 37}

\* One round of Miller-Rabin with the base a: TRUE when the round does not
\* return False.
mr_round_passes(n, a) ==
    LET RECURSIVE odd_part(_)
        odd_part(d) == IF d % 2 = 0 THEN odd_part(d \div 2) ELSE d
        RECURSIVE twos(_)
        twos(d) == IF d % 2 = 0 THEN 1 + twos(d \div 2) ELSE 0
        d == odd_part(n - 1)
        s == twos(n - 1)
        x == ModExp(a, d, n)
    IN  \/ x = 1
        \/ x = n - 1
        \/ \E j \in 1..(s - 1) : ModExp(a, d * Pow2(j), n) = n - 1

\* _is_probable_prime(n): the values it can return.  Trial division by
\* small_primes is deterministic; after it, every round draws a base in
\* [2, n - 2], and the rounds can all draw the same base.
is_probable_prime(n) ==
    IF n < 2 THEN {FALSE}
    ELSE LET hit == {p \in small_primes : n = p \/ n % p = 0}
         IN  IF hit # {} THEN {n = SetMin(hit)}
             ELSE {b \in BOOLEAN :
                     \E a \in 2..(n - 2) : mr_round_passes(n, a) = b}

\* The candidates of _get_prime(bits): randbits(bits) with the top bit and the
\* low bit set.
get_prime_candidates(bits) ==
    {LET top == Pow2(bits - 1)
         v == top + (r % top)
     IN  IF v % 2 = 1 THEN v ELSE v + 1 : r \in 0..(Pow2(bits) - 1)}

\* A sampler that returns every candidate that is not a multiple of N.
zstar_accepts_nonzero(N, x) == x % N # 0

\* if GCD(x, N) == 1: return x
zstar_accepts(N, x) == GCD(x, N) = 1

\* The values of secrets.randbelow(N - 2) + 2, for N >= 3.
zstar_candidates(N) == 2..(N - 1)

\* The calls: sample() of make_sampler_zstar(N), and gen_rsa_modulus(bits).
RandCalls ==
    {<<"sample", N>> : N \in (2..MaxModulus) \cup {SetMin(GQModuli)}}
    \cup {<<"gen_rsa_modulus", 2 * h>> : h \in 2..MaxHalfBits}

InitRand ==
    /\ arg \in RandCalls
    /\ calls = [pc |-> IF arg[1] = "sample" THEN "sample" ELSE "p",
                p |-> 0, q |-> 0]
    /\ rcv = <<>>
    /\ ret = None
    /\ err = "none"
    /\ done = {}
    /\ params = None
    /\ sk_C = None /\ pk_C = None
    /\ identity = <<>>
    /\ iCer = None /\ view_CA = None /\ view_U = None
    /\ sk_U = None /\ pk_U = None
    /\ oracle = <<>>

\* secrets.randbelow(N - 2) raises ValueError when N - 2 <= 0.
SampleRaises ==
    /\ calls.pc = "sample" /\ arg[2] - 2 <= 0
    /\ err' = "ValueError"
    /\ calls' = [calls EXCEPT !.pc = "raised"]
    /\ UNCHANGED <<params, done, sk_C, pk_C, identity, iCer, view_CA, view_U,
                   sk_U, pk_U, rcv, oracle, arg, ret>>

\* One iteration of the sampler's loop whose candidate is returned.
SampleAccepted ==
    /\ calls.pc = "sample" /\ arg[2] - 2 > 0
    /\ \E x \in zstar_candidates(arg[2]) :
         /\ zstar_accepts(arg[2], x)
         /\ ret' = Some(x)
    /\ calls' = [calls EXCEPT !.pc = "returned"]
    /\ UNCHANGED <<params, done, sk_C, pk_C, identity, iCer, view_CA, view_U,
                   sk_U, pk_U, rcv, err, oracle, arg>>

\* One iteration of the sampler's loop whose candidate is rejected.
SampleRejected ==
    /\ calls.pc = "sample" /\ arg[2] - 2 > 0
    /\ \E x \in zstar_candidates(arg[2]) :
         /\ ~zstar_accepts(arg[2], x)
         /\ rcv' = <<x>>
    /\ UNCHANGED <<params, done, sk_C, pk_C, identity, iCer, view_CA, view_U,
                   sk_U, pk_U, err, oracle, calls, arg, ret>>

\* One iteration of the loop of _get_prime(bits // 2) that returns c: to p
\* (line 58), to q (line 59) or to q again (line 61).
GetPrimeReturns(c) ==
    /\ calls.pc \in {"p", "q", "redraw"}
    /\ c \in get_prime_candidates(arg[2] \div 2)
    /\ TRUE \in is_probable_prime(c)
    /\ calls' = CASE calls.pc = "p" -> [calls EXCEPT !.p = c, !.pc = "q"]
                  [] OTHER -> [calls EXCEPT !.q = c, !.pc = "while"]
    /\ UNCHANGED <<params, done, sk_C, pk_C, identity, iCer, view_CA, view_U,
                   sk_U, pk_U, rcv, err, oracle, arg, ret>>

\* One iteration of the loop of _get_prime whose candidate is not prime.
GetPrimeRetries ==
    /\ calls.pc \in {"p", "q", "redraw"}
    /\ \E c \in get_prime_candidates(arg[2] \div 2) :
         /\ FALSE \in is_probable_prime(c)
         /\ rcv' = <<c>>
    /\ UNCHANGED <<params, done, sk_C, pk_C, identity, iCer, view_CA, view_U,
                   sk_U, pk_U, err, oracle, calls, arg, ret>>

\* while q == p: (go to the redraw); otherwise return p * q
WhileTest ==
    /\ calls.pc = "while"
    /\ IF calls.q = calls.p
       THEN /\ calls' = [calls EXCEPT !.pc = "redraw"]
            /\ ret' = ret
       ELSE /\ calls' = [calls EXCEPT !.pc = "returned"]
            /\ ret' = Some(calls.p * calls.q)
    /\ UNCHANGED <<params, done, sk_C, pk_C, identity, iCer, view_CA, view_U,
                   sk_U, pk_U, rcv, err, oracle, arg>>

\* Every value _get_prime can be asked to consider in the model.
PrimeCandidates == UNION {get_prime_candidates(h) : h \in 2..MaxHalfBits}

NextRand ==
    \/ SampleRaises
    \/ SampleAccepted
    \/ SampleRejected
    \/ \E c \in PrimeCandidates : GetPrimeReturns(c)
    \/ GetPrimeRetries
    \/ WhileTest

\* The random source is fair: a draw that can be made again and again is
\* made at some time, for the accepted candidates of the sampler and for
\* every prime _get_prime can return; the test of the while loop is taken.
FairRand ==
    /\ SF_vars(SampleAccepted)
    /\ \A c \in {v \in PrimeCandidates : TRUE \in is_probable_prime(v)} :
          SF_vars(GetPrimeReturns(c))
    /\ WF_vars(WhileTest)
    /\ WF_vars(SampleRaises)

SpecRand == InitRand /\ [][NextRand]_vars /\ FairRand

-----------------------------------------------------------------------------
(* End-to-end correctness.                                                 *)

\* The user and the verifier have both finished.
BothDone == {"SKGen", "PKRecon"} \subseteq done

\* The assertions of the end-to-end tests: pk_U is not None and
\* keygen(sk_U) == pk_U (keygen returns, and returns pk_U).
TestAsserts == pk_U # None /\ keygen(params, sk_U[1]) = Ok(pk_U[1])

\* C1: on the toy bundle (addition mod Q = 65537, keygen(sk) = sk mod Q,
\* encode_simple / decode_simple_int, lam = 16), for every identity and every
\* triple of sampler outputs, no operation of the run raises and, once SKGen
\* and PKRecon have returned, pk_U is not None and keygen(sk_U) = pk_U.
C1_ToyEndToEnd ==
    params.scheme = "toy" =>
        /\ err = "none"
        /\ BothDone => TestAsserts

\* A toy run for b"alice" has finished with a non-zero user key, with a
\* challenge above 1 and with secrets that wrap around Q.
C1_Witness ==
    /\ params.scheme = "toy" /\ BothDone /\ identity = Alice
    /\ TestAsserts /\ sk_U[1] # 0
    /\ ro_default(oracle[iCer[1]], params.lam) > 1
    /\ view_U[1].k_U = Q - 1 /\ view_CA[1].k_C = Q - 2 /\ sk_C[1] = Q - 1

\* C2: with the GQ, Schnorr and BLS bundles and their own samplers, for
\* EVERY combination of sampler outputs and every identity, no operation of
\* the run raises, pk_U is not None and keygen(sk_U) = pk_U.
C2_EveryBundleEndToEnd ==
    params.scheme \in {"gq", "schnorr", "bls"} =>
        /\ err = "none"
        /\ BothDone => TestAsserts

-----------------------------------------------------------------------------
(* PKRecon on adversarial input.                                           *)

\* C4: for every byte string and every pk_C, PKRecon returns None exactly
\* when Decode returns None, and then without a call of RO or of a group
\* operation; otherwise it returns mul(z_action_E(RO(iCer), R_U), pk_C) for
\* the decoded R_U.  PKRecon(b"not-an-icert") and PKRecon(b"garbage") are
\* None.
C4_PKReconTotal ==
    "PKRecon" \in done =>
        LET decoded == Decode(params, rcv)
        IN  /\ rcv \in {NotAnICert, Garbage} => pk_U = None
            /\ IF decoded = None
               THEN /\ pk_U = None
                    /\ calls = [op |-> "PKRecon", ro |-> 0, grp |-> 0]
                    /\ rcv \notin DOMAIN oracle
               ELSE /\ calls.ro = 1 /\ calls.grp > 0
                    /\ rcv \in DOMAIN oracle
                    /\ pk_U = Some(E_mul(params,
                                         z_action_E(params,
                                             ro_default(oracle[rcv], params.lam),
                                             decoded[1][1]),
                                         pk_C[1]))

\* PKRecon has returned None for b"not-an-icert", as the test asserts.
C4_Witness ==
    /\ "PKRecon" \in done /\ rcv = NotAnICert /\ pk_U = None
    /\ pk_C # None /\ calls.op = "PKRecon"

-----------------------------------------------------------------------------
(* The codecs.                                                             *)

\* The function applied on its own was f.
Applied(f) == Len(arg) > 0 /\ arg[1] = f

\* C3: for every element R of the public-key group and every identity id
\* (b"", identities containing b"|id=" or b"R="), Decode(Encode(R, id))
\* returns (R, id), for the toy, GQ, P-256 and BLS codecs.
C3_RoundTrip ==
    Applied("RoundTrip") => ret = Ok(Some(<<arg[2], arg[3]>>))

\* C8: for every element R of the public-key group E, the identity
\* E_ops.one() included, and every identity byte string, Encode(R, id)
\* returns a byte string and does not raise.
C8_EncodeTotal ==
    Applied("Encode") => IsOk(ret) /\ Val(ret) \in Seq(Byte)

\* The certificate Encode writes for keygen(1) and the empty identity.
RefCert(P) == PrefixR \o serialize(P, Val(keygen(P, 1))) \o DelimId

RECURSIVE Pow10(_)
Pow10(n) == IF n = 0 THEN 1 ELSE 10 * Pow10(n - 1)

Misframed(P, b) ==
    \/ ~StartsWith(b, PrefixR)
    \/ Len(b) - 2 < FieldLen(P) + 4
    \/ SubSeq(b, 3 + FieldLen(P), 6 + FieldLen(P)) # DelimId

\* C5: each fixed-length decoder (L = ceil(bitlen(N)/8), 33, 48) returns
\* None, and does not raise, for every input that (i) does not start with
\* b"R=", (ii) has fewer than L + 4 bytes after the prefix, (iii) has no
\* b"|id=" at offset 2 + L, or (iv) whose L-byte field stands for no element
\* of the group (GQ: the integer, reduced mod N, is no unit of Z_N; P-256:
\* the compressed form of no curve point; BLS: the compressed form of no
\* element of G1); and it returns a pair for every other input.
C5_DecodeFailureConditions ==
    Applied("Decode") /\ params.scheme # "toy" =>
        LET b == arg[2]
            L == FieldLen(params)
            field == SubSeq(b, 3, 2 + L)
            denoted ==
                CASE params.scheme = "gq" ->
                       {r \in Elements(params) :
                           (int_from_fixed_bytes(field) - r) % params.N = 0}
                  [] OTHER ->
                       {A \in Encodable(params) : serialize(params, A) = field}
        IN  IF Misframed(params, b) THEN ret = None
            ELSE IF denoted = {} THEN ret = None
            ELSE ret # None

\* C6 as stated: every decoder, decode_simple_int included, reads the
\* element from a field of fixed length after b"R=" and the delimiter at
\* that fixed offset: whenever it returns (R, id), id starts where it starts
\* in every other certificate, 2 + L + 4 bytes into the input.
C6_FixedOffsetEveryDecoder ==
    Applied("Decode") /\ ret # None =>
        Len(arg[2]) - Len(ret[1][2]) = Len(RefCert(params))

\* C6 as amended: the GQ, P-256 and BLS decoders read the element from the
\* L bytes after b"R=" and the delimiter at offset 2 + L: the input is
\* accepted exactly when the same field followed by b"|id=" alone is, with
\* the same element, and the identity is everything after offset 2 + L + 4,
\* whatever b"|id=" the field or the identity contain.  decode_simple_int
\* instead splits at the FIRST b"|id=" of the input: the element is int() of
\* the bytes between b"R=" and it, and the identity everything after it.
C6_FixedOffsetParsing ==
    Applied("Decode") =>
        LET b == arg[2]
        IN  IF params.scheme = "toy"
            THEN LET occ == {i \in 1..Len(b) : StartsWith(From(b, i - 1), DelimId)}
                 IN  IF occ = {} \/ ~StartsWith(b, PrefixR) THEN ret = None
                     ELSE LET at == CHOOSE i \in occ : \A j \in occ : i <= j
                              n == py_int(SubSeq(b, 3, at - 1))
                          IN  IF at < 3 \/ n = None THEN ret = None
                              ELSE ret = Some(<<n[1], From(b, at + 3)>>)
            ELSE LET L == FieldLen(params)
                 IN  IF Misframed(params, b) THEN ret = None
                     ELSE LET alone == Decode(params, Upto(b, 6 + L))
                          IN  IF alone = None THEN ret = None
                              ELSE ret = Some(<<alone[1][1], From(b, 6 + L)>>)

\* The BLS decoder has returned a point and an identity that contains
\* b"|id=".
C6_Witness ==
    /\ Applied("Decode") /\ params.scheme = "bls"
    /\ ret # None
    /\ ret[1][2] = <<120>> \o DelimId \o <<121>>
    /\ ret[1][1] # INFINITY

-----------------------------------------------------------------------------
(* The homomorphism of keygen and the range of the random oracle.          *)

\* C9: for every challenge e >= 1 and all x, y of the secret-key domain,
\* keygen(add(z_action_H(e, x), y)) returns
\* mul(z_action_E(e, keygen(x)), keygen(y)), for the toy keygen and for the
\* GQ keygen.
C9_KeygenHomomorphism ==
    Applied("Hom") => ret[1] = Ok(ret[2])

\* The two sides have been computed for the GQ keys 2 and N - 1 under the
\* largest challenge, 2^lam, and are a key other than 1.
C9_Witness ==
    /\ Applied("Hom") /\ params.scheme = "gq" /\ params.N = 323
    /\ arg[2] = Pow2(params.lam) /\ arg[3] = 2 /\ arg[4] = params.N - 1
    /\ ret[1] = Ok(ret[2]) /\ ret[2] # 1

\* C10: for every byte string b and every lam >= 0, ro_default(b, lam) is
\* 1 + (the digest of b, read as a big-endian unsigned integer, mod 2^lam),
\* and so lies in [1, 2^lam].
C10_RORange ==
    Applied("RO") =>
        LET lam == arg[3]
            d == arg[4]
            h == d[1] * 256 + d[2]
        IN  /\ ret = 1 + (h % Pow2(lam))
            /\ ret >= 1 /\ ret <= Pow2(lam)

\* A digest of all ones under lam = 16: ro_default returns 2^16, the top of
\* the range.
C10_Witness ==
    /\ Applied("RO") /\ arg[3] = 16 /\ arg[4] = <<255, 255>>
    /\ ret = 65536

-----------------------------------------------------------------------------
(* Setup, keygen and the samplers.                                         *)

\* C14: whatever value s the sampler returns, Setup returns the pair
\* (s, keygen(s)) when keygen(s) returns, so that pk_C = keygen(sk_C) with
\* sk_C the one value drawn, and Setup raises exactly when keygen(s) raises,
\* with keygen's exception.
C14_SetupGuarantee ==
    Applied("Setup") =>
        LET s == arg[2]
            pk == keygen(params, s)
        IN  IF IsOk(pk)
            THEN /\ IsOk(ret)
                 /\ Val(ret)[1] = s
                 /\ keygen(params, Val(ret)[1]) = Ok(Val(ret)[2])
            ELSE ret = pk

\* Setup returned a pair on the BLS bundle, for a value of the sampler's
\* range.
C14_Witness ==
    /\ Applied("Setup") /\ params.scheme = "bls"
    /\ arg[2] \in SamplerRange(params)
    /\ IsOk(ret)

\* C12: keygen of the GQ, Schnorr and BLS bundles raises for every integer
\* outside the valid secret-key domain (GQ: the units in 1..N-1; Schnorr and
\* BLS: 1..q-1), and never reduces such an integer into the domain to return
\* a public key.
C12_KeygenRejectsOutOfDomain ==
    (Applied("keygen") /\ params.scheme # "toy"
        /\ arg[2] \notin ValidSecrets(params))
    => ~IsOk(ret)

\* C13: the samplers of the GQ, Schnorr and BLS bundles return only valid
\* secret keys, and every valid secret key is a value they can return.
C13_SamplerRangeIsDomain ==
    Applied("sample_H") =>
        /\ ret \in ValidSecrets(params)
        /\ \A x \in ValidSecrets(params) : x \in SamplerRange(params)

-----------------------------------------------------------------------------
(* One issuance round.                                                     *)

\* C15: whenever iCertGen returns, the iCer of the CA-side result is the
\* iCer of the User-side result, byte for byte, and ViewCA.r = ViewU.r.
C15_ViewsCoherent ==
    (Applied("iCertGen") /\ IsOk(ret)) =>
        /\ Val(ret)[1][1] = Val(ret)[2][1]
        /\ Val(ret)[1][2].r = Val(ret)[2][2].r

\* iCertGen returned on a GQ bundle with a blinding value that is not sk_C.
C15_Witness ==
    /\ Applied("iCertGen") /\ IsOk(ret)
    /\ params.scheme = "gq"
    /\ Val(ret)[1][2].r # arg[3]

\* C19: iCertGen gives the first sampler value to the User (k_U) and the
\* second to the CA (k_C); it raises exactly when keygen or Encode raises;
\* and when it returns, iCer = Encode(mul(keygen(k_U), keygen(k_C)), id),
\* r = add(z_action_H(RO(iCer), k_C), sk_C) in both views, and Decode(iCer)
\* is the pair (mul(keygen(k_U), keygen(k_C)), id).
C19_IssuanceRound ==
    Applied("iCertGen") =>
        LET id == arg[2]
            skC == arg[3]
            kU == arg[4]
            kC == arg[5]
            K_U == keygen(params, kU)
            K_C == keygen(params, kC)
            R_U == E_mul(params, Val(K_U), Val(K_C))
            enc == Encode(params, R_U, id)
            e == ro_default(arg[6], params.lam)
        IN  IF ~IsOk(K_U) \/ ~IsOk(K_C) THEN ~IsOk(ret)
            ELSE IF ~IsOk(enc) THEN ret = enc
            ELSE /\ IsOk(ret)
                 /\ Val(ret)[2][1] = Val(enc)
                 /\ Val(ret)[2][2].k_U = kU
                 /\ Val(ret)[1][2].k_C = kC
                 /\ Val(ret)[2][2].r
                      = H_add(params, z_action_H(params, e, kC), skC)
                 /\ Val(ret)[1][2].r = Val(ret)[2][2].r
                 /\ Decode(params, Val(ret)[2][1]) = Some(<<R_U, id>>)

\* iCertGen returned a certificate for the identity b"alice", with two
\* different sampler values and the challenge 2^lam.
C19_Witness ==
    /\ Applied("iCertGen") /\ IsOk(ret)
    /\ arg[2] = Alice /\ arg[4] # arg[5]
    /\ ro_default(arg[6], params.lam) = Pow2(params.lam)

-----------------------------------------------------------------------------
(* The scalar action.                                                      *)

\* C20: for every bundle, every element x of H or of E and every integer a
\* in [-10, 10], z_action_H(a, x) and z_action_E(a, x) are what combining |a|
\* copies of x (of the inverse of x when a < 0) one at a time gives, starting
\* from the identity; a = 0 gives the identity and a = 1 gives x.
C20_ScalarMatchesNaive ==
    Applied("z_action") =>
        LET grp == arg[2]
            a == arg[3]
            x == arg[4]
            identityOf == IF grp = "H" THEN H_zero(params) ELSE E_one(params)
            combine(u, v) == IF grp = "H" THEN H_add(params, u, v)
                             ELSE E_mul(params, u, v)
            invert(u) == IF grp = "H" THEN H_neg(params, u)
                         ELSE E_inv(params, u)
            RECURSIVE naive(_, _)
            naive(n, y) == IF n = 0 THEN identityOf
                           ELSE combine(naive(n - 1, y), y)
        IN  /\ ret = IF a < 0 THEN naive(-a, invert(x)) ELSE naive(a, x)
            /\ a = 0 => ret = identityOf
            /\ a = 1 => ret = x

\* The scalar action was applied with a = -10 to an element of E that is not
\* the identity.
C20_Witness ==
    /\ Applied("z_action") /\ arg[2] = "E" /\ arg[3] = -10
    /\ arg[4] # E_one(params)
    /\ params.scheme = "schnorr"

-----------------------------------------------------------------------------
(* The challenge, and interleaved runs.                                    *)

\* C11: in every run whose iCer goes unchanged from iCertGen to SKGen and to
\* PKRecon, the challenge computed in SKGen and the one computed in PKRecon
\* are the integer computed in iCertGen; that integer is ro_default of the
\* digest of the iCer bytes and lam, so two runs with the same iCer bytes
\* compute the same challenge.
C11_SameChallenge ==
    \A i \in RunIds :
       /\ "SKGen" \in done[i] => calls[i].SKGen = calls[i].iCertGen
       /\ "PKRecon" \in done[i] => calls[i].PKRecon = calls[i].iCertGen
       /\ iCer[i] # None =>
            /\ calls[i].iCertGen
                 = Some(ro_default(oracle[iCer[i][1]], params.lam))
            /\ \A j \in RunIds :
                 iCer[j] = iCer[i] => calls[j].iCertGen = calls[i].iCertGen

\* Run 1 has computed the challenge 2^lam at all three sites, and run 2,
\* under another sk_C, has computed it in iCertGen.
C11_Witness ==
    /\ {"SKGen", "PKRecon"} \subseteq done[1]
    /\ calls[1].PKRecon = Some(Pow2(params.lam))
    /\ calls[2].iCertGen # None
    /\ sk_C[2] # sk_C[1]

\* C17: with two or more runs interleaved operation by operation over one
\* Params value, Params stays as constructed, no operation raises, every
\* result of a run is what the operation returns on that run's own values
\* (its sk_C, its views, its iCer), and every run that has finished has
\* pk_U not None and keygen(sk_U) = pk_U.
C17_RunsIndependent ==
    /\ params = ret
    /\ \A i \in RunIds :
         LET sha == Sha(oracle, Zeros(DigestLen))
         IN  /\ err[i] = "none"
             /\ "Setup" \in done[i] =>
                  Setup(params, sk_C[i][1]) = Ok(<<sk_C[i][1], pk_C[i][1]>>)
             /\ "iCertGen" \in done[i] =>
                  iCertGen(params, identity[i], sk_C[i][1], view_U[i][1].k_U,
                           view_CA[i][1].k_C, sha)
                    = Ok(<< <<iCer[i][1], view_CA[i][1]>>,
                            <<iCer[i][1], view_U[i][1]>> >>)
             /\ "SKGen" \in done[i] =>
                  sk_U[i] = Some(SKGen(params, view_U[i][1], iCer[i][1], sha))
             /\ "PKRecon" \in done[i] =>
                  pk_U[i] = PKRecon(params, iCer[i][1], pk_C[i][1], sha)
             /\ {"SKGen", "PKRecon"} \subseteq done[i] =>
                  /\ pk_U[i] # None
                  /\ keygen(params, sk_U[i][1]) = Ok(pk_U[i][1])

-----------------------------------------------------------------------------
(* The configuration of the benchmark harness.                             *)

C21_NegativeScalars ==
    (Applied("z_action") /\ arg[3] < 0) =>
        LET grp == arg[2]
            a == -arg[3]
            x == arg[4]
            act(b, y) == IF grp = "H" THEN z_action_H(params, b, y)
                         ELSE z_action_E(params, b, y)
            invert(u) == IF grp = "H" THEN H_neg(params, u)
                         ELSE E_inv(params, u)
        IN  /\ ret = act(a, invert(x))
            /\ ret = invert(act(a, x))

\* z_action_H was applied with -7 to an element of H that is not its own
\* inverse.
C21_Witness ==
    /\ Applied("z_action") /\ arg[2] = "H" /\ arg[3] = -7
    /\ H_neg(params, arg[4]) # arg[4]
    /\ params.scheme = "gq"

\* C22: every call of the scalar action terminates, and the calls it makes
\* are the ones listed by z_action_calls, which produce the value returned:
\* for a > 0 the loop runs exactly bit_length(a) iterations, with
\* bit_length(a) doublings and popcount(a) combines (at most
\* 2 * bit_length(a) group operations) and no recursive call; for a < 0 there
\* is exactly one recursive call, with -a, after one neg / inv; for a = 0
\* there is no group operation (only the identity is fetched).
C22_LoopBounded ==
    Applied("z_action") =>
        LET grp == arg[2]
            a == arg[3]
            n == IF a < 0 THEN -a ELSE a
            t == z_action_calls(grp, a)
            nm == ops_names(grp)
            RECURSIVE popcount(_)
            popcount(m) == IF m = 0 THEN 0 ELSE (m % 2) + popcount(m \div 2)
            Where(ok(_)) == {i \in 1..Len(t) : ok(t[i])}
            IsDoubling(c) == c[1] = nm.combine /\ c[2] = "base"
            IsCombine(c) == c[1] = nm.combine /\ c[2] = "res"
            IsInvert(c) == c[1] = nm.invert
            IsCall(c) == c[1] = "call"
        IN  /\ z_action_replay(params, grp, t, arg[4]) = ret
            /\ Cardinality(Where(IsDoubling)) = bit_length(n)
            /\ Cardinality(Where(IsCombine)) = popcount(n)
            /\ popcount(n) <= bit_length(n)
            /\ Cardinality(Where(IsDoubling) \cup Where(IsCombine))
                   <= 2 * bit_length(n)
            /\ a > 0 => /\ Where(IsInvert) = {}
                        /\ Where(IsCall) = {1}
                        /\ Len(t) = 2 + bit_length(a) + popcount(a)
            /\ a < 0 => /\ Where(IsInvert) = {2}
                        /\ Where(IsCall) = {1, 3}
                        /\ t[3] = <<"call", -a>>
            /\ a = 0 => t = << <<"call", 0>>, <<nm.unit>> >>

\* z_action_E was applied with 10 or -10 (4 bits, 2 of them set) to an
\* element of G1 other than the identity.
C22_Witness ==
    /\ Applied("z_action") /\ arg[2] = "E" /\ arg[3] \in {10, -10}
    /\ arg[4] # E_one(params)
    /\ Len(z_action_calls("E", 10)) = 8
    /\ params.scheme = "bls"

\* C23: z_action_H and z_action_E make the same calls in the same order up to
\* the renaming zero -> one, add -> mul, neg -> inv; z_action_H calls only
\* zero, add and neg and z_action_E only one, mul and inv; and on the toy and
\* GQ bundles, whose H and E operations coincide (zero = one, add = mul,
\* neg = inv), z_action_H(ops, a, x) = z_action_E(ops, a, x).
C23_OneAlgorithm ==
    Applied("z_action") =>
        LET a == arg[3]
            x == arg[4]
            tH == z_action_calls("H", a)
            tE == z_action_calls("E", a)
            rename(c) ==
                [c EXCEPT ![1] = CASE c[1] = "zero" -> "one"
                                   [] c[1] = "add" -> "mul"
                                   [] c[1] = "neg" -> "inv"
                                   [] OTHER -> c[1]]
        IN  /\ [i \in 1..Len(tH) |-> rename(tH[i])] = tE
            /\ \A i \in 1..Len(tH) : tH[i][1] \in {"call", "zero", "add", "neg"}
            /\ \A i \in 1..Len(tE) : tE[i][1] \in {"call", "one", "mul", "inv"}
            /\ params.scheme \in {"toy", "gq"} =>
                   /\ H_zero(params) = E_one(params)
                   /\ H_add(params, x, x) = E_mul(params, x, x)
                   /\ H_neg(params, x) = E_inv(params, x)
                   /\ ret = z_action_H(params, a, x)
                   /\ ret = z_action_E(params, a, x)
                   /\ z_action_replay(params, "H", tH, x)
                         = z_action_replay(params, "E", tE, x)

\* On a GQ bundle, where H_ops and E_ops are one ZStarOps object, the scalar
\* action was applied with -5 to an element that is not its own inverse.
C23_Witness ==
    /\ Applied("z_action") /\ params.scheme = "gq" /\ arg[3] = -5
    /\ E_inv(params, arg[4]) # arg[4]
    /\ z_action_H(params, 5, arg[4]) # z_action_H(params, -5, arg[4])

\* C26: with RO = ro_default, the scalar that iCertGen, SKGen and PKRecon pass
\* to z_action_H / z_action_E is at least 1 (and at most 2^lam): the scalar
\* action takes neither the a = 0 nor the a < 0 branch, makes no recursive
\* call and never calls neg / inv.
C26_PositiveChallenges ==
    \A i \in RunIds : \A site \in {"iCertGen", "SKGen", "PKRecon"} :
       calls[i][site] # None =>
          LET e == calls[i][site][1]
              grp == IF site = "PKRecon" THEN "E" ELSE "H"
              t == z_action_calls(grp, e)
          IN  /\ e >= 1 /\ e <= Pow2(params.lam)
              /\ \A k \in 1..Len(t) :
                    /\ t[k][1] # ops_names(grp).invert
                    /\ t[k][1] = "call" => k = 1
              /\ Len(t) > 2

\* A run whose three operations computed the challenge 1, from the all-zero
\* digest, and whose PKRecon returned a key.
C26_Witness ==
    \E i \in RunIds :
       /\ calls[i].iCertGen = Some(1)
       /\ calls[i].SKGen = Some(1)
       /\ calls[i].PKRecon = Some(1)
       /\ pk_U[i] # None

\* C25: for every byte string b that the GQ decoder or the toy decoder
\* decode_simple_int accepts, Encode(Decode(b)) = b.
C25_AcceptedIsCanonical ==
    (/\ Applied("Decode") /\ params.scheme \in {"toy", "gq"}
     /\ ret # None) =>
        Encode(params, ret[1][1], ret[1][2]) = Ok(arg[2])

\* C24: the loop of the GQ sampler returns at some time, for every modulus N
\* with an admissible candidate, when the random source does not draw
\* rejected candidates forever; what it returns is a candidate coprime to N,
\* never a rejected one.
C24_SamplerTerminates ==
    /\ [](arg[1] = "sample" /\ ret # None =>
             /\ ret[1] \in zstar_candidates(arg[2])
             /\ GCD(ret[1], arg[2]) = 1
             /\ rcv # <<>> => GCD(rcv[1], arg[2]) # 1)
    /\ (/\ arg[1] = "sample" /\ calls.pc = "sample"
        /\ \E x \in zstar_candidates(arg[2]) : GCD(x, arg[2]) = 1)
          ~> (calls.pc = "returned" /\ ret # None)

\* The sampler for N = 35 rejected a candidate and then returned another.
C24_Witness ==
    /\ arg = <<"sample", 35>> /\ calls.pc = "returned"
    /\ rcv = <<14>> /\ ret = Some(9)

\* C27: for every even bits >= 4, gen_rsa_modulus(bits) returns at some
\* time, under a fair random source, and it returns N = p * q for distinct
\* primes p and q of exactly bits // 2 bits each.
C27_ModulusTerminates ==
    /\ [](arg[1] = "gen_rsa_modulus" /\ ret # None =>
             LET h == arg[2] \div 2
                 prime(n) == n > 1 /\ \A k \in 2..(n - 1) : n % k # 0
             IN  /\ ret[1] = calls.p * calls.q
                 /\ calls.p # calls.q
                 /\ prime(calls.p) /\ prime(calls.q)
                 /\ bit_length(calls.p) = h /\ bit_length(calls.q) = h)
    /\ (arg[1] = "gen_rsa_modulus" /\ calls.pc = "p")
          ~> (calls.pc = "returned" /\ ret # None)

=============================================================================
